---- MODULE Spec2Model ----
(***************************************************************************)
(* State-machine model of the terminal service: the session registry       *)
(* (SessionManager), the expiry sweeper, the background-process supervisor *)
(* (ProcessService), the foreground executor (CommandService) and the      *)
(* history log (HistoryService).                                           *)
(*                                                                         *)
(* Time is counted in sweep periods: one unit of `now` is the 10 minutes   *)
(* between two fires of sm.cleanupTicker.                                  *)
(***************************************************************************)
EXTENDS Integers, Sequences, FiniteSets, TLC

\* ------------------------------------------------------------------ bounds
\* Number of sessions CreateSession may allocate in one behaviour.
MaxSessions == 2
\* Last value of the clock.
MaxTime == 5
\* Number of Process objects StartProcess may create in one behaviour.
MaxProcs == 1
\* Number of lines a child writes to one of its streams.
MaxEmit == 3
\* Number of commands in one batch request.
MaxBatch == 2
\* Number of writes SendInput makes to one child.
MaxInput == 1
\* Number of entries SetWorkingDirectory may push onto an activity log
\* (it appends without trimming).
MaxLog == 3

\* The sizes below stand for program constants that are too large to
\* enumerate; the model keeps their role and scales their value.
\* sm.sessionExpiry: 24 hours in the code, here three sweep periods.
sessionExpiry == 3
\* outputBuffer.MaxLines: 10000 in the code.
MaxLines == 2
\* The capacity of StdoutChan and StderrChan: 100 in the code.
ChanCap == 2
\* The activity-log cap of LogActivity: 100 in the code.
ActivityLogCap == 2
\* hs.maxSize: 1000 in the code.
maxSize == 2

\* ------------------------------------------------------- program constants
\* The period of sm.cleanupTicker (10 minutes): the unit of time.
SweepPeriod == 1

\* ------------------------------------------------------------ input domains
SessionIds == 1..MaxSessions
ProcIds == 1..MaxProcs
\* Process ids a client may name: those of ProcIds and 0, which no process has.
NamedProcIds == {0} \cup ProcIds
Streams == {"Stdout", "Stderr"}
\* Directories a client passes to SetWorkingDirectory.  "/tmp" exists,
\* "work" is a relative name that exists under the server's own directory,
\* "/etc/hosts" is a regular file, "/missing" does not exist.
Dirs == {"/tmp", "work", "/etc/hosts", "/missing"}
EnvKeys == {"SHELL", "A"}
EnvValues == {"/bin/sh"}
Inputs == {"x", "x\n"}
Queries == {"l", "make"}
Commands == {"ls", "make"}
Signals == {"SIGTERM", "SIGKILL", "SIGINT", "SIGHUP", "SIGUSR1"}
\* Exit statuses of a child: 0 and 1 are normal exits, -1 is what
\* ExitError.ExitCode() reports for a child ended by a signal.
ExitCodes == {0, 1, -1}
\* request.Timeout, in seconds: 0 is no timeout.
Timeouts == {0, 1}
\* os.Environ(): the environment of the server process.
HostVars == [k \in {"HOME", "A"} |-> IF k = "HOME" THEN "/root" ELSE "h"]
\* Values a client gives to an environment variable in a request or with
\* the env endpoints of the layering scenario; the second contains "=".
LayerValues == {"r", "a=b"}

VARIABLES
    now,        \* time.Now()
    tick,       \* sm.cleanupTicker.C holds a tick the sweeper has not received
    created,    \* number of ids uuid.New() has handed to CreateSession
    sessions,   \* sm.sessions: session id -> Session
    procs,      \* every Process built by StartProcess: process id -> Process
    io,         \* per process and stream: the pipe, its collector, the buffer
    history,    \* hs.history: session id -> sequence of commands
    call,       \* the foreground call (ExecuteBatchCommands) in flight
    ret,        \* what the last API operation returned
    files,      \* the host's filesystem as the file service sees it: path -> kind
    threads     \* per goroutine: the method it runs, where it is, the locks it holds

vars == <<now, tick, created, sessions, procs, io, history, call, ret, files, threads>>

\* ----------------------------------------------------------------- helpers
\* The last n elements of s (s[len(s)-n:] when len(s) > n).
LastN(s, n) == IF Len(s) > n THEN SubSeq(s, Len(s) - n + 1, Len(s)) ELSE s

\* What is on the host when the service starts, among the paths the file
\* service is given: the server's own directory and "/tmp".
HostFiles == [p \in {".", "/tmp"} |-> "dir"]

\* Values a client gives to the session variable SHELL: empty, a shell, a
\* directory, a regular file without execute permission, a missing path.
Shells == {"", "/bin/sh", "/tmp", "/etc/hosts", "/missing"}

\* os.Stat(dir) succeeds.
StatOk(dir) == dir \in {"/tmp", "work", "/etc/hosts", "/bin/bash", "/bin/sh"}

\* The kernel executes the file: a regular file with execute permission.
CanExec(path) == path \in {"/bin/bash", "/bin/sh"}

\* FileInfo.IsDir() of what os.Stat(dir) returns, which the caller drops.
IsDir(dir) == dir \in {"/tmp", "work"}

\* filepath.Abs(dir): an absolute path is returned as is, a relative one is
\* joined to the server's working directory.
Abs(dir) == IF dir = "work" THEN "/srv/work" ELSE dir

NoRet == [op |-> "none", id |-> 0, err |-> "", val |-> <<>>]

Ret(op, id, err, val) == [op |-> op, id |-> id, err |-> err, val |-> val]

NoCall == [pc |-> "idle"]

\* A CommandRequest.
Request(cmd, timeout, env) ==
    [Command |-> cmd, Timeout |-> timeout, Environment |-> env]

\* Requests with neither timeout nor environment.
PlainRequests == {Request(c, 0, <<>>) : c \in Commands}

\* Requests with and without a timeout.
TimedRequests == {Request(c, t, <<>>) : c \in Commands, t \in Timeouts}

\* Requests that carry environment variables.
EnvRequests ==
    {Request("ls", 0, e) : e \in UNION {[K -> LayerValues] : K \in SUBSET {"A"}}}

\* ------------------------------------------------------------ environment
\* A Go string of the model as the sequence of its pieces: "=" is a piece
\* of its own, every run of other bytes is one piece.
Chars(s) ==
    IF s = "" THEN <<>>
    ELSE IF s = "a=b" THEN <<"a", "=", "b">>
    ELSE <<s>>

\* fmt.Sprintf("%s=%s", k, v)
Entry(k, v) == Chars(k) \o <<"=">> \o Chars(v)

\* The entries `for k, v := range m { env = append(env, ...) }` appends, in
\* one of the orders the map iteration may take.
MapEntries(m) ==
    LET n == Cardinality(DOMAIN m)
        order == CHOOSE f \in [1..n -> DOMAIN m] :
                     \A i, j \in 1..n : i # j => f[i] # f[j]
    IN [i \in 1..n |-> Entry(order[i], m[order[i]])]

\* The environment with the request layer placed before the session layer.
ComposeEnv_RequestFirst(sessionEnv, requestEnv) ==
    MapEntries(HostVars) \o MapEntries(requestEnv) \o MapEntries(sessionEnv)

\* cmd.Env as ExecuteCommand and StartProcess build it: the host
\* environment, then the session's variables, then the request's.
ComposeEnv(sessionEnv, requestEnv) ==
    MapEntries(HostVars) \o MapEntries(sessionEnv) \o MapEntries(requestEnv)

\* The position of the first "=" of an entry (entries built by Entry have one).
IndexOfEq(e) ==
    CHOOSE i \in 1..Len(e) : e[i] = "=" /\ \A j \in 1..(i - 1) : e[j] # "="

\* The variable name and the value of an entry "name=value".
KeyOf(e) == SubSeq(e, 1, IndexOfEq(e) - 1)

ValueOf(e) == SubSeq(e, IndexOfEq(e) + 1, Len(e))

\* The entries of env that bind k.
Binding(env, k) == {i \in 1..Len(env) : KeyOf(env[i]) = Chars(k)}

\* What the child finds for k: whether k is set and its value.  os/exec
\* starts the child with the last entry of cmd.Env for each name.
Getenv(env, k) ==
    IF Binding(env, k) = {} THEN [set |-> FALSE, value |-> <<>>]
    ELSE LET last == CHOOSE i \in Binding(env, k) : \A j \in Binding(env, k) : j <= i
         IN [set |-> TRUE, value |-> ValueOf(env[last])]

\* --------------------------------------------------------------- goroutines
\* Two goroutines serving API requests and the goroutine NewSessionManager
\* starts for cleanupExpiredSessions.
ApiThreads == {"t1", "t2"}

Threads == ApiThreads \cup {"sweeper"}

\* A goroutine that runs no method.
Idle == [op |-> "idle", id |-> 0, pc |-> 0, holds |-> {}, found |-> FALSE,
         cur |-> 0, val |-> <<>>]

\* ------------------------------------------------------------------- Init
Init ==
    /\ now = 0
    /\ files = HostFiles
    /\ threads = [t \in Threads |-> Idle]
    /\ tick = FALSE
    /\ created = 0
    /\ sessions = <<>>
    /\ procs = <<>>
    /\ io = <<>>
    /\ history = <<>>
    /\ call = NoCall
    /\ ret = NoRet

\* ------------------------------------------------------------------ clock
\* Ten minutes pass and the ticker fires.  The sweeper receives every tick
\* before the next one fires (it is never more than one period late).
Tick ==
    /\ now < MaxTime
    /\ ~tick
    /\ now' = now + SweepPeriod
    /\ tick' = TRUE
    /\ UNCHANGED <<threads, files, created, sessions, procs, io, history, call, ret>>

\* ----------------------------------------------------------------- Process
\* Process.Kill(): SIGKILL is delivered to the child; a child that is still
\* running ends with a signal status.
Kill(p) ==
    [p EXCEPT !.killed = TRUE,
              !.child = "exited",
              !.status = IF p.child = "running" THEN -1 ELSE p.status]

\* The Terminate that kills whatever the state of the process and records
\* the kill as its exit code.
Terminate_RecordsKill(p) == [Kill(p) EXCEPT !.ExitCode = -1]

\* Process.Terminate(): nothing for a completed process, Kill otherwise.
Terminate(p) == IF p.Completed THEN p ELSE Kill(p)

\* The loop `for _, proc := range session.RunningProcesses { proc.Terminate() }`
\* of DeleteSession and cleanupExpiredSessions, applied to the heap.
TerminateAll(ps, ids) ==
    [q \in DOMAIN ps |-> IF q \in ids THEN Terminate(ps[q]) ELSE ps[q]]

\* --------------------------------------------------------- SessionManager
Restrict(f, S) == [x \in S |-> f[x]]

\* The expiry test that lets a session live one more sweep period.
Expired_OnePeriodLate(t) ==
    {id \in DOMAIN sessions : sessions[id].ExpiresAt + SweepPeriod < t}

\* Session ids whose record cleanupExpiredSessions deletes at time t.
Expired(t) == {id \in DOMAIN sessions : sessions[id].ExpiresAt < t}

\* The sweeper that deletes expired sessions without terminating their
\* processes.
cleanupExpiredSessions_NoTerminate ==
    /\ tick
    /\ tick' = FALSE
    /\ sessions' = Restrict(sessions, DOMAIN sessions \ Expired(now))
    /\ UNCHANGED <<threads, files, now, created, procs, io, history, call, ret>>

\* One iteration of the sweeper loop: receive the tick, and under sm.mutex
\* terminate the processes of, and delete, every expired session.
cleanupExpiredSessions ==
    /\ tick
    /\ tick' = FALSE
    /\ LET gone == Expired(now)
           owned == UNION {sessions[id].RunningProcesses : id \in gone}
       IN /\ procs' = TerminateAll(procs, owned)
          /\ sessions' = Restrict(sessions, DOMAIN sessions \ gone)
    /\ UNCHANGED <<threads, files, now, created, io, history, call, ret>>

NewSession ==
    [LastActive |-> now,
     ExpiresAt |-> now + sessionExpiry,
     WorkingDir |-> "",
     IsActive |-> TRUE,
     ActivityLog |-> <<"Session created">>,
     EnvVars |-> [k \in {"SHELL"} |-> "/bin/bash"],
     RunningProcesses |-> {}]

CreateSession ==
    /\ created < MaxSessions
    /\ created' = created + 1
    /\ sessions' = [id \in DOMAIN sessions \cup {created + 1} |->
                      IF id = created + 1 THEN NewSession ELSE sessions[id]]
    /\ ret' = Ret("CreateSession", created + 1, "", <<>>)
    /\ UNCHANGED <<threads, files, now, tick, procs, io, history, call>>

\* The lookup every SessionManager method starts with.
Found(id) == id \in DOMAIN sessions /\ sessions[id].IsActive

\* GetSession extending the expiry from the previous activity time.
Touch_FromLastActive(s) ==
    [s EXCEPT !.LastActive = now, !.ExpiresAt = s.LastActive + sessionExpiry]

\* The assignments GetSession makes to a session it found.
Touch(s) == [s EXCEPT !.LastActive = now, !.ExpiresAt = now + sessionExpiry]

GetSession(id) ==
    /\ IF Found(id)
       THEN /\ sessions' = [sessions EXCEPT ![id] = Touch(@)]
            /\ ret' = Ret("GetSession", id, "", <<>>)
       ELSE /\ sessions' = sessions
            /\ ret' = Ret("GetSession", id, "session not found or inactive", <<>>)
    /\ UNCHANGED <<threads, files, now, tick, created, procs, io, history, call>>

DeleteSession(id) ==
    /\ IF id \in DOMAIN sessions
       THEN /\ procs' = TerminateAll(procs, sessions[id].RunningProcesses)
            /\ sessions' = Restrict(sessions, DOMAIN sessions \ {id})
            /\ ret' = Ret("DeleteSession", id, "", <<>>)
       ELSE /\ UNCHANGED <<procs, sessions>>
            /\ ret' = Ret("DeleteSession", id, "session not found", <<>>)
    /\ UNCHANGED <<threads, files, now, tick, created, io, history, call>>

SetWorkingDirectory(id, dir) ==
    /\ IF ~Found(id)
       THEN /\ sessions' = sessions
            /\ ret' = Ret("SetWorkingDirectory", id, "session not found or inactive", <<>>)
       ELSE IF ~StatOk(dir)
       THEN /\ sessions' = sessions
            /\ ret' = Ret("SetWorkingDirectory", id, "directory does not exist", <<>>)
       ELSE /\ Len(sessions[id].ActivityLog) < MaxLog
            /\ sessions' = [sessions EXCEPT ![id] =
                   [Touch(@) EXCEPT
                      !.WorkingDir = Abs(dir),
                      !.ActivityLog = Append(@, "Set working directory")]]
            /\ ret' = Ret("SetWorkingDirectory", id, "", <<>>)
    /\ UNCHANGED <<threads, files, now, tick, created, procs, io, history, call>>

\* LogActivity(id, activity): the entry is dropped when the session is gone,
\* otherwise appended and the log cut to its last ActivityLogCap entries.
LogActivity(ss, id, activity) ==
    IF id \in DOMAIN ss /\ ss[id].IsActive
    THEN [ss EXCEPT ![id].ActivityLog = LastN(Append(@, activity), ActivityLogCap)]
    ELSE ss

\* --------------------------------------------------------- HistoryService
\* The AddToHistory that records nothing.
AddToHistory_Skip(h, id, cmd) == h

\* AddToHistory(sessionID, command) applied to the history map h.
AddToHistory(h, id, cmd) ==
    LET old == IF id \in DOMAIN h THEN h[id] ELSE <<>>
    IN [x \in DOMAIN h \cup {id} |->
           IF x = id THEN LastN(Append(old, cmd), maxSize) ELSE h[x]]

\* ---------------------------------------------------------- ProcessService
\* A pipe between the child and the server, its collector goroutine and the
\* line buffer the collector fills.  Lines are numbered in emission order.
NewStream ==
    [emitted |-> 0,      \* lines the child has written
     pipe |-> <<>>,      \* written, not yet read by the scanner
     open |-> TRUE,      \* the server's read end is open
     scan |-> <<>>,      \* read into the scanner's buffer, not yet returned
     nread |-> 0,        \* lines scanner.Scan() has returned
     chan |-> 0,         \* lines held by StdoutChan / StderrChan
     panicked |-> FALSE, \* the collector died of a run-time panic
     buf |-> <<>>]       \* OutputBuffer.Stdout / OutputBuffer.Stderr

\* StartProcess, the shell selection: the session's SHELL when it is bound,
\* not empty and os.Stat of it succeeds, "/bin/bash" otherwise.
ShellPath(env) ==
    IF "SHELL" \in DOMAIN env /\ env["SHELL"] # "" /\ StatOk(env["SHELL"])
    THEN env["SHELL"] ELSE "/bin/bash"

\* The error of cmd.Start() for the shell it was given.
StartError(path) == "fork/exec " \o path

NewProcess(id, req) ==
    [session |-> id,
     shellPath |-> ShellPath(sessions[id].EnvVars),   \* cmd.Path
     Command |-> req.Command,
     Timeout |-> req.Timeout,        \* the deadline of ctx, 0 for none
     timedOut |-> FALSE,             \* the deadline of ctx has passed
     Environment |-> req.Environment,      \* request.Environment
     EnvVars |-> sessions[id].EnvVars,     \* session.EnvVars as ranged over
     env |-> ComposeEnv(sessions[id].EnvVars, req.Environment),   \* cmd.Env
     stage |-> "started",   \* started | registered | unregistered
     child |-> "running",   \* running | exited
     status |-> 0,          \* the child's exit status once it has exited
     killed |-> FALSE,      \* Process.Kill() has been called
     sigkill |-> FALSE,     \* SignalProcess has delivered SIGKILL
     descendant |-> "none", \* a process the shell started: none | running | exited
     reaper |-> "none",     \* none | wait | log | sleep | done
     Completed |-> FALSE,
     ExitCode |-> 0,
     stdin |-> <<>>,        \* what has been written to the child's stdin
     seenDone |-> FALSE]    \* a caller has been told isRunning = false

\* StartProcess up to and including cmd.Start(): validate the session,
\* record the command in the history and spawn the child.  cmd.Start() may
\* fail for any shell, and does fail for one the kernel cannot execute.
StartProcess(id, req, spawned) ==
    /\ LET pid == Cardinality(DOMAIN procs) + 1 IN
       IF ~Found(id)
       THEN /\ ret' = Ret("StartProcess", id, "session not found or inactive", <<>>)
            /\ UNCHANGED <<sessions, procs, io, history>>
       ELSE IF sessions[id].WorkingDir = ""
       THEN /\ sessions' = [sessions EXCEPT ![id] = Touch(@)]
            /\ ret' = Ret("StartProcess", id, "working directory not set for session", <<>>)
            /\ UNCHANGED <<procs, io, history>>
       ELSE /\ sessions' = [sessions EXCEPT ![id] = Touch(@)]
            /\ history' = AddToHistory(history, id, req.Command)
            /\ IF spawned
               THEN /\ Cardinality(DOMAIN procs) < MaxProcs
                    /\ CanExec(ShellPath(sessions[id].EnvVars))
                    /\ procs' = [q \in DOMAIN procs \cup {pid} |->
                                   IF q = pid THEN NewProcess(id, req) ELSE procs[q]]
                    /\ io' = [q \in DOMAIN io \cup {pid} |->
                                   IF q = pid THEN [st \in Streams |-> NewStream]
                                   ELSE io[q]]
                    /\ ret' = ret
               ELSE /\ ret' = Ret("StartProcess", id,
                                   StartError(ShellPath(sessions[id].EnvVars)), <<>>)
                    /\ UNCHANGED <<procs, io>>
    /\ UNCHANGED <<threads, files, now, tick, created, call>>

\* The rest of StartProcess without the kill of the child whose
\* registration failed.
RegisterProcess_NoKill(pid) ==
    /\ pid \in DOMAIN procs
    /\ procs[pid].stage = "started"
    /\ LET id == procs[pid].session IN
       IF Found(id)
       THEN /\ sessions' = LogActivity(
                   [sessions EXCEPT ![id].RunningProcesses = @ \cup {pid}],
                   id, "Started process")
            /\ procs' = [procs EXCEPT ![pid].stage = "registered",
                                      ![pid].reaper = "wait"]
            /\ ret' = Ret("StartProcess", id, "", [ID |-> pid, IsRunning |-> TRUE])
       ELSE /\ sessions' = sessions
            /\ procs' = [procs EXCEPT ![pid].stage = "unregistered"]
            /\ ret' = Ret("StartProcess", id, "session not found or inactive", <<>>)
    /\ UNCHANGED <<threads, files, now, tick, created, io, history, call>>

\* The rest of StartProcess: RegisterProcess, and on success the two
\* collectors and the reaper are started and the activity is logged; on
\* failure the child is killed.
RegisterProcess(pid) ==
    /\ pid \in DOMAIN procs
    /\ procs[pid].stage = "started"
    /\ LET id == procs[pid].session IN
       IF Found(id)
       THEN /\ sessions' = LogActivity(
                   [sessions EXCEPT ![id].RunningProcesses = @ \cup {pid}],
                   id, "Started process")
            /\ procs' = [procs EXCEPT ![pid].stage = "registered",
                                      ![pid].reaper = "wait"]
            /\ ret' = Ret("StartProcess", id, "", [ID |-> pid, IsRunning |-> TRUE])
       ELSE /\ sessions' = sessions
            /\ procs' = [procs EXCEPT ![pid] =
                            [Kill(@) EXCEPT !.stage = "unregistered"]]
            /\ ret' = Ret("StartProcess", id, "session not found or inactive", <<>>)
    /\ UNCHANGED <<threads, files, now, tick, created, io, history, call>>

\* The child writes one more line to one of its streams.
ChildWrite(pid, st) ==
    /\ pid \in DOMAIN procs
    /\ procs[pid].child = "running"
    /\ io[pid][st].emitted < MaxEmit
    /\ io' = [io EXCEPT ![pid][st].emitted = @ + 1,
                        ![pid][st].pipe = Append(@, io[pid][st].emitted + 1)]
    /\ UNCHANGED <<threads, files, now, tick, created, sessions, procs, history, call, ret>>

\* The deadline of the context StartProcess built with WithTimeout passes
\* before cmd.Wait() has returned: os/exec kills the child.
TimeoutFires(pid) ==
    /\ pid \in DOMAIN procs
    /\ procs[pid].Timeout > 0
    /\ ~procs[pid].timedOut
    /\ procs[pid].stage \in {"started", "registered"}
    /\ procs[pid].reaper \in {"none", "wait"}
    /\ procs' = [procs EXCEPT ![pid] =
                    [@ EXCEPT !.timedOut = TRUE,
                              !.child = "exited",
                              !.status = IF procs[pid].child = "running"
                                         THEN -1 ELSE @]]
    /\ UNCHANGED <<threads, files, now, tick, created, sessions, io, history, call, ret>>

\* The shell of a background process starts a process of its own for the
\* command; it is in the shell's process group, which is the server's, since
\* cmd.SysProcAttr is left unset.
ProcessForks(pid) ==
    /\ pid \in DOMAIN procs
    /\ procs[pid].child = "running"
    /\ procs[pid].descendant = "none"
    /\ procs' = [procs EXCEPT ![pid].descendant = "running"]
    /\ UNCHANGED <<threads, files, now, tick, created, sessions, io, history, call, ret>>

\* The process the shell started ends on its own.
ProcessDescendantExit(pid) ==
    /\ pid \in DOMAIN procs
    /\ procs[pid].descendant = "running"
    /\ procs' = [procs EXCEPT ![pid].descendant = "exited"]
    /\ UNCHANGED <<threads, files, now, tick, created, sessions, io, history, call, ret>>

\* The child exits on its own with a normal exit status.
ChildExit(pid, code) ==
    /\ pid \in DOMAIN procs
    /\ procs[pid].child = "running"
    /\ procs' = [procs EXCEPT ![pid].child = "exited", ![pid].status = code]
    /\ UNCHANGED <<threads, files, now, tick, created, sessions, io, history, call, ret>>

\* collectOutput, one read(2) of the scanner: everything that is in the pipe
\* moves into the scanner's buffer.
CollectorFill(pid, st) ==
    /\ pid \in DOMAIN procs
    /\ procs[pid].stage = "registered"
    /\ io[pid][st].open
    /\ ~io[pid][st].panicked
    /\ io[pid][st].pipe # <<>>
    /\ io' = [io EXCEPT ![pid][st].scan = @ \o io[pid][st].pipe,
                        ![pid][st].pipe = <<>>]
    /\ UNCHANGED <<threads, files, now, tick, created, sessions, procs, history, call, ret>>

\* collectOutput, the buffer update under outputBuffer.Lock: append the
\* line, and cut the buffer to its last MaxLines lines when it is longer.
AppendLine(buf, line) ==
    IF Len(Append(buf, line)) > MaxLines
    THEN SubSeq(Append(buf, line),
                Len(Append(buf, line)) - MaxLines + 1, Len(Append(buf, line)))
    ELSE Append(buf, line)

\* The reaper has run close(outputBuffer.StdoutChan) and
\* close(outputBuffer.StderrChan).
Closed(pid) == procs[pid].reaper = "done"

\* `select { case channel <- line: default: }`: the send proceeds when the
\* channel has room, the default branch is taken when it is full, and a send
\* on a closed channel is a run-time panic (a closed channel is always ready
\* for the send case).
Offer(s, closed) ==
    IF closed THEN [s EXCEPT !.panicked = TRUE]
    ELSE [s EXCEPT !.chan = IF @ < ChanCap THEN @ + 1 ELSE @]

\* collectOutput, one iteration of `for scanner.Scan()`: the next line of
\* the scanner's buffer is offered to the fan-out channel and, unless the
\* offer panicked, appended to the line buffer.
CollectorScan(pid, st) ==
    /\ pid \in DOMAIN procs
    /\ procs[pid].stage = "registered"
    /\ ~io[pid][st].panicked
    /\ io[pid][st].scan # <<>>
    /\ LET line == Head(io[pid][st].scan)
           offered == Offer([io[pid][st] EXCEPT !.scan = Tail(@), !.nread = @ + 1],
                            Closed(pid))
       IN io' = [io EXCEPT ![pid][st] =
                   IF offered.panicked THEN offered
                   ELSE [offered EXCEPT !.buf = AppendLine(@, line)]]
    /\ UNCHANGED <<threads, files, now, tick, created, sessions, procs, history, call, ret>>

\* The reaper that leaves ExitCode as the Process literal set it.
WaitExitCode_Unset(status) == 0

\* What cmd.Wait() leaves in ExitCode: nil error for status 0, otherwise
\* ExitError.ExitCode(), which is -1 for a child ended by a signal.
WaitExitCode(status) == IF status = 0 THEN 0 ELSE status

\* The reaper goroutine, first part: cmd.Wait() returns once the child has
\* exited, closing the server's ends of the three pipes (what is still in a
\* pipe is lost to its collector); then Completed and ExitCode are set under
\* process.Lock.
ReaperWait(pid) ==
    /\ pid \in DOMAIN procs
    /\ procs[pid].reaper = "wait"
    /\ procs[pid].child = "exited"
    /\ io' = [io EXCEPT ![pid] = [st \in Streams |-> [@[st] EXCEPT !.open = FALSE]]]
    /\ procs' = [procs EXCEPT ![pid].Completed = TRUE,
                              ![pid].ExitCode = WaitExitCode(procs[pid].status),
                              ![pid].reaper = "log"]
    /\ UNCHANGED <<threads, files, now, tick, created, sessions, history, call, ret>>

\* The reaper goroutine, second part: LogActivity("Process completed ...").
ReaperLog(pid) ==
    /\ pid \in DOMAIN procs
    /\ procs[pid].reaper = "log"
    /\ sessions' = LogActivity(sessions, procs[pid].session, "Process completed")
    /\ procs' = [procs EXCEPT ![pid].reaper = "sleep"]
    /\ UNCHANGED <<threads, files, now, tick, created, io, history, call, ret>>

\* The reaper that ends by calling UnregisterProcess for its process.
ReaperClose_Unregisters(pid) ==
    /\ pid \in DOMAIN procs
    /\ procs[pid].reaper = "sleep"
    /\ procs' = [procs EXCEPT ![pid].reaper = "done"]
    /\ sessions' = [id \in DOMAIN sessions |->
                      [sessions[id] EXCEPT !.RunningProcesses = @ \ {pid}]]
    /\ UNCHANGED <<threads, files, now, tick, created, io, history, call, ret>>

\* The reaper goroutine, last part: after the 100 ms sleep both fan-out
\* channels are closed, then cancel() and close(process.Done) run.
ReaperClose(pid) ==
    /\ pid \in DOMAIN procs
    /\ procs[pid].reaper = "sleep"
    /\ procs' = [procs EXCEPT ![pid].reaper = "done"]
    /\ UNCHANGED <<threads, files, now, tick, created, sessions, io, history, call, ret>>

\* SessionManager.GetProcess: "" when the process is found, else the error.
GetProcessErr(id, pid) ==
    IF ~Found(id) THEN "session not found or inactive"
    ELSE IF pid \notin sessions[id].RunningProcesses THEN "process not found"
    ELSE ""

\* The ProcessInfo that reports a process as running whatever its state,
\* as the literal StartProcess returns does.
ProcessInfo_Running(q) ==
    [IsRunning |-> TRUE, ExitCode |-> procs[q].ExitCode]

\* The ProcessInfo of a registered process: IsRunning is !process.Completed.
ProcessInfo(q) ==
    [IsRunning |-> ~procs[q].Completed, ExitCode |-> procs[q].ExitCode]

\* SessionManager.ListProcesses (also what the GetProcess endpoint calls):
\* one ProcessInfo per registered process.
ListProcesses(id) ==
    /\ IF ~Found(id)
       THEN /\ ret' = Ret("ListProcesses", id, "session not found or inactive", <<>>)
            /\ procs' = procs
       ELSE /\ ret' = Ret("ListProcesses", id, "",
                       [q \in sessions[id].RunningProcesses |-> ProcessInfo(q)])
            /\ procs' = [q \in DOMAIN procs |->
                           IF q \in sessions[id].RunningProcesses /\ procs[q].Completed
                           THEN [procs[q] EXCEPT !.seenDone = TRUE]
                           ELSE procs[q]]
    /\ UNCHANGED <<threads, files, now, tick, created, sessions, io, history, call>>

\* The result that is process.OutputBuffer itself: its lines are those of
\* the buffer whenever the caller reads them.
OutputCopy_Shared(pid) ==
    [pid |-> pid, shared |-> TRUE, Stdout |-> <<>>, Stderr |-> <<>>]

\* GetOutput's result, built while OutputBuffer.Lock is held: a new
\* OutputBuffer whose slices are made and filled by copy().
OutputCopy(pid) ==
    [pid |-> pid,
     shared |-> FALSE,
     Stdout |-> io[pid]["Stdout"].buf,
     Stderr |-> io[pid]["Stderr"].buf]

\* The lines of stream st that a caller holding result v reads.
ReadLines(v, st) == IF v.shared THEN io[v.pid][st].buf ELSE v[st]

\* ProcessService.GetOutput: a copy of both line buffers.
GetOutput(id, pid) ==
    /\ IF GetProcessErr(id, pid) # ""
       THEN /\ ret' = Ret("GetOutput", id, GetProcessErr(id, pid), <<>>)
            /\ sessions' = sessions
       ELSE /\ ret' = Ret("GetOutput", id, "", OutputCopy(pid))
            /\ sessions' = LogActivity(sessions, id, "Retrieved output")
    /\ UNCHANGED <<threads, files, now, tick, created, procs, io, history, call>>

\* The newline SendInput adds to an input that does not end in one.
WithNewline(input) == IF input = "x" THEN "x\n" ELSE input

\* ProcessService.SendInput: the write fails once the child has exited
\* (broken pipe) or cmd.Wait() has closed the stdin pipe.
SendInput(id, pid, input) ==
    /\ IF GetProcessErr(id, pid) # ""
       THEN /\ ret' = Ret("SendInput", id, GetProcessErr(id, pid), <<>>)
            /\ UNCHANGED <<sessions, procs>>
       ELSE IF procs[pid].child = "exited"
       THEN /\ ret' = Ret("SendInput", id, "write: broken pipe or file already closed", <<>>)
            /\ UNCHANGED <<sessions, procs>>
       ELSE /\ Len(procs[pid].stdin) < MaxInput
            /\ procs' = [procs EXCEPT ![pid].stdin = Append(@, WithNewline(input))]
            /\ sessions' = LogActivity(sessions, id, "Sent input")
            /\ ret' = Ret("SendInput", id, "", <<>>)
    /\ UNCHANGED <<threads, files, now, tick, created, io, history, call>>

\* The signal names the switch of SignalProcess maps to a syscall.Signal.
SupportedSignals == {"SIGTERM", "SIGKILL", "SIGINT", "SIGHUP"}

\* ProcessService.SignalProcess.  os.Process.Signal fails once cmd.Wait()
\* has reaped the child; SIGKILL ends a running child, the other signals
\* end it unless the command handles them (dies).  The signal goes to the
\* pid of the shell alone: a process the shell started is not touched.
SignalProcess(id, pid, sig, dies) ==
    /\ IF GetProcessErr(id, pid) # ""
       THEN /\ ret' = Ret("SignalProcess", id, GetProcessErr(id, pid), <<>>)
            /\ UNCHANGED <<sessions, procs>>
       ELSE IF sig \notin SupportedSignals
       THEN /\ ret' = Ret("SignalProcess", id, "unsupported signal", <<>>)
            /\ UNCHANGED <<sessions, procs>>
       ELSE IF procs[pid].Completed
       THEN /\ ret' = Ret("SignalProcess", id, "os: process already finished", <<>>)
            /\ UNCHANGED <<sessions, procs>>
       ELSE /\ procs' = [procs EXCEPT ![pid] =
                           LET ends == @.child = "running" /\ (sig = "SIGKILL" \/ dies) IN
                           [@ EXCEPT !.child = IF ends THEN "exited" ELSE @,
                                     !.status = IF ends THEN -1 ELSE @,
                                     !.sigkill = @ \/ sig = "SIGKILL"]]
            /\ sessions' = LogActivity(sessions, id, "Sent signal")
            /\ ret' = Ret("SignalProcess", id, "", <<>>)
    /\ UNCHANGED <<threads, files, now, tick, created, io, history, call>>

\* The methods of ProcessHandler, once the body is bound: the HTTP status
\* answered for the service's result r.
ProcessHandlerStatus(r) ==
    IF r.err # "" THEN 500
    ELSE IF r.op = "StartProcess" THEN 201
    ELSE 200

\* SessionHandler.GetSession, DeleteSession and SetWorkingDirectory: the HTTP
\* status answered for the session manager's result r.
SessionHandlerStatus(r) ==
    IF r.err # "" THEN (IF r.op = "SetWorkingDirectory" THEN 400 ELSE 404)
    ELSE IF r.op = "DeleteSession" THEN 204
    ELSE 200

\* -------------------------------------------------------------- EnvService
\* The lookup of the EnvService methods: only the presence of the id.
Exists(id) == id \in DOMAIN sessions

\* The assignment that replaces the whole map by the one binding.
MapSet_Replace(m, k, v) == [x \in {k} |-> v]

\* m with key k bound to v.
MapSet(m, k, v) == [x \in DOMAIN m \cup {k} |-> IF x = k THEN v ELSE m[x]]

\* m without key k.
MapDelete(m, k) == [x \in DOMAIN m \ {k} |-> m[x]]

\* m overridden by every binding of n.
MapMerge(m, n) == [x \in DOMAIN m \cup DOMAIN n |-> IF x \in DOMAIN n THEN n[x] ELSE m[x]]

SetEnvVar(id, k, v) ==
    /\ IF ~Exists(id)
       THEN /\ ret' = Ret("SetEnvVar", id, "session not found", <<>>)
            /\ sessions' = sessions
       ELSE /\ sessions' = [sessions EXCEPT ![id].EnvVars = MapSet(@, k, v)]
            /\ ret' = Ret("SetEnvVar", id, "", <<>>)
    /\ UNCHANGED <<threads, files, now, tick, created, procs, io, history, call>>

GetEnvVars(id) ==
    /\ IF ~Exists(id)
       THEN ret' = Ret("GetEnvVars", id, "session not found", <<>>)
       ELSE ret' = Ret("GetEnvVars", id, "", sessions[id].EnvVars)
    /\ UNCHANGED <<threads, files, now, tick, created, sessions, procs, io, history, call>>

UnsetEnvVar(id, k) ==
    /\ IF ~Exists(id)
       THEN /\ ret' = Ret("UnsetEnvVar", id, "session not found", <<>>)
            /\ sessions' = sessions
       ELSE /\ sessions' = [sessions EXCEPT ![id].EnvVars = MapDelete(@, k)]
            /\ ret' = Ret("UnsetEnvVar", id, "", <<>>)
    /\ UNCHANGED <<threads, files, now, tick, created, procs, io, history, call>>

SetBatchEnvVars(id, m) ==
    /\ IF ~Exists(id)
       THEN /\ ret' = Ret("SetBatchEnvVars", id, "session not found", <<>>)
            /\ sessions' = sessions
       ELSE /\ sessions' = [sessions EXCEPT ![id].EnvVars = MapMerge(@, m)]
            /\ ret' = Ret("SetBatchEnvVars", id, "", <<>>)
    /\ UNCHANGED <<threads, files, now, tick, created, procs, io, history, call>>

\* ------------------------------------------------- HistoryService, the API
\* GetHistory(sessionID, limit): the whole log for limit <= 0, else its last
\* limit entries; an unknown session has an empty log.
GetHistory(id, limit) ==
    /\ LET h == IF id \in DOMAIN history THEN history[id] ELSE <<>>
       IN ret' = Ret("GetHistory", id, "", IF limit <= 0 THEN h ELSE LastN(h, limit))
    /\ UNCHANGED <<threads, files, now, tick, created, sessions, procs, io, history, call>>

\* strings.Contains(command, query) on the commands and queries of the model.
Contains(cmd, query) == query = cmd \/ (query = "l" /\ cmd = "ls")

SearchHistory(id, query) ==
    /\ LET h == IF id \in DOMAIN history THEN history[id] ELSE <<>>
           Match(c) == Contains(c, query)
       IN ret' = Ret("SearchHistory", id, "", SelectSeq(h, Match))
    /\ UNCHANGED <<threads, files, now, tick, created, sessions, procs, io, history, call>>

ClearHistory(id) ==
    /\ history' = [x \in DOMAIN history \cup {id} |->
                      IF x = id THEN <<>> ELSE history[x]]
    /\ ret' = Ret("ClearHistory", id, "", <<>>)
    /\ UNCHANGED <<threads, files, now, tick, created, sessions, procs, io, call>>

\* ---------------------------------------------------------- CommandService
\* The validation without the test of the working directory.
ExecErr_NoDirCheck(id) ==
    IF ~Found(id) THEN "session not found or inactive" ELSE ""

\* The error ExecuteCommand returns before it runs anything: "" when the
\* session is found and its working directory is set.
ExecErr(id) ==
    IF ~Found(id) THEN "session not found or inactive"
    ELSE IF sessions[id].WorkingDir = "" THEN "working directory not set for session"
    ELSE ""

\* The sessions after the GetSession call ExecuteCommand starts with.
AfterGet(id) == IF Found(id) THEN [sessions EXCEPT ![id] = Touch(@)] ELSE sessions

\* The history of session id, empty when the log has no entry for it.
HistoryOf(id) == IF id \in DOMAIN history THEN history[id] ELSE <<>>

\* The CommandOutput ExecuteCommand builds from what cmd.Run() returned:
\* nil (started, status 0), an *exec.ExitError (started, another status; its
\* ExitCode() is -1 for a child ended by a signal), or another error (the
\* child could not be started), whose text is appended to Stderr.
RunResult_MessageOnAnyError(cmd, started, status) ==
    [Command |-> cmd,
     ExitCode |-> IF started THEN status ELSE -1,
     Stderr |-> IF started /\ status = 0 THEN <<"stderr">>
                ELSE IF started THEN <<"stderr", "\n", "exit status or signal">>
                ELSE <<"\n", "fork/exec failed">>]

RunResult(cmd, started, status) ==
    [Command |-> cmd,
     ExitCode |-> IF started THEN status ELSE -1,
     Stderr |-> IF started THEN <<"stderr">> ELSE <<"\n", "fork/exec failed">>]

\* ExecuteCommand up to the start of the child inside cmd.Run(): validation,
\* history, environment, spawn.  When the child cannot be started cmd.Run()
\* returns at once and the rest of ExecuteCommand runs in the same step.
ExecuteCommand(id, req, started) ==
    /\ call.pc = "idle"
    /\ IF ExecErr(id) # ""
       THEN /\ sessions' = AfterGet(id)
            /\ ret' = Ret("ExecuteCommand", id, ExecErr(id), <<>>)
            /\ UNCHANGED <<history, call>>
       ELSE /\ history' = AddToHistory(history, id, req.Command)
            /\ IF started
               THEN /\ sessions' = AfterGet(id)
                    /\ call' = [pc |-> "running", kind |-> "exec", id |-> id,
                                Command |-> req.Command,
                                Timeout |-> req.Timeout,
                                Environment |-> req.Environment,
                                EnvVars |-> sessions[id].EnvVars,
                                env |-> ComposeEnv(sessions[id].EnvVars, req.Environment),
                                shell |-> "running",  \* the child: running | exited
                                status |-> 0,         \* its exit status
                                forked |-> FALSE,     \* a descendant holds the output pipes
                                timedOut |-> FALSE,   \* the deadline of ctx has passed
                                overran |-> FALSE,    \* the command ran at the deadline
                                late |-> FALSE]       \* a descendant ended after the deadline
                    /\ ret' = ret
               ELSE /\ sessions' = LogActivity(AfterGet(id), id, "Executed command")
                    /\ call' = call
                    /\ ret' = Ret("ExecuteCommand", id, "",
                                  [result |-> RunResult(req.Command, FALSE, 0),
                                   started |-> FALSE, status |-> 0,
                                   timedOut |-> FALSE, overran |-> FALSE, late |-> FALSE])
    /\ UNCHANGED <<threads, files, now, tick, created, procs, io>>

\* The foreground call whose child runs.
Executing == call.pc = "running" /\ call.kind = "exec"

\* The shell starts a process of its own for a part of the command; the
\* process inherits the write ends of the stdout and stderr pipes.
ShellForks ==
    /\ Executing
    /\ call.shell = "running"
    /\ ~call.forked
    /\ call' = [call EXCEPT !.forked = TRUE]
    /\ UNCHANGED <<threads, files, now, tick, created, sessions, procs, io, history, ret>>

\* The process the shell started ends on its own.
DescendantExit ==
    /\ Executing
    /\ call.forked
    /\ call' = [call EXCEPT !.forked = FALSE, !.late = call.timedOut]
    /\ UNCHANGED <<threads, files, now, tick, created, sessions, procs, io, history, ret>>

\* The shell exits on its own with a normal exit status.
ShellExit(code) ==
    /\ Executing
    /\ call.shell = "running"
    /\ call' = [call EXCEPT !.shell = "exited", !.status = code]
    /\ UNCHANGED <<threads, files, now, tick, created, sessions, procs, io, history, ret>>

\* The deadline of the context ExecuteCommand built with WithTimeout passes
\* during cmd.Run(): os/exec kills the child (the shell, not its
\* descendants).
ExecTimeout ==
    /\ Executing
    /\ call.Timeout > 0
    /\ ~call.timedOut
    /\ call' = [call EXCEPT !.timedOut = TRUE,
                            !.overran = (call.shell = "running" \/ call.forked),
                            !.shell = "exited",
                            !.status = IF call.shell = "running" THEN -1 ELSE @]
    /\ UNCHANGED <<threads, files, now, tick, created, sessions, procs, io, history, ret>>

\* ExecuteCommand from the return of cmd.Run(): Run returns when the child
\* has exited and the goroutines copying its stdout and stderr into the
\* byte buffers have reached end of file, that is when no process holds the
\* write ends any more; the result is built, the activity logged and the
\* output returned.
ExecuteCommandReturn ==
    /\ Executing
    /\ call.shell = "exited"
    /\ ~call.forked
    /\ sessions' = LogActivity(sessions, call.id, "Executed command")
    /\ ret' = Ret("ExecuteCommand", call.id, "",
                  [result |-> RunResult(call.Command, TRUE, call.status),
                   started |-> TRUE, status |-> call.status,
                   timedOut |-> call.timedOut, overran |-> call.overran,
                   late |-> call.late])
    /\ call' = NoCall
    /\ UNCHANGED <<threads, files, now, tick, created, procs, io, history>>

\* What ExecuteBatchCommands hands back: the results slice, with the request
\* and the outcome of every ExecuteCommand call it made.
BatchVal(c, started, results, tried) ==
    [started |-> started, results |-> results, tried |-> tried,
     Commands |-> c.Commands, ContinueOnError |-> c.ContinueOnError,
     hist0 |-> c.hist0]

\* ExecuteBatchCommands up to the loop: validation of the session.
ExecuteBatchCommands(id, cmds, coe) ==
    /\ call.pc = "idle"
    /\ sessions' = AfterGet(id)
    /\ LET c == [pc |-> "loop", kind |-> "batch", id |-> id, Commands |-> cmds,
                 ContinueOnError |-> coe, i |-> 1, results |-> <<>>,
                 tried |-> <<>>, hist0 |-> HistoryOf(id)]
       IN IF ExecErr(id) # ""
          THEN /\ ret' = Ret("ExecuteBatchCommands", id, ExecErr(id),
                               BatchVal(c, FALSE, <<>>, <<>>))
               /\ call' = call
          ELSE IF cmds = <<>>
          THEN /\ ret' = Ret("ExecuteBatchCommands", id, "", BatchVal(c, TRUE, <<>>, <<>>))
               /\ call' = call
          ELSE /\ call' = c
               /\ ret' = ret
    /\ UNCHANGED <<threads, files, now, tick, created, procs, io, history>>

\* One iteration of the batch loop, up to cmd.Run() of its ExecuteCommand.
\* When ExecuteCommand returns an error its output is nil: with
\* continueOnError unset the loop returns (results, err); with it set, nil
\* is appended and output.ExitCode dereferences it, the handler panics.
BatchCommandStart ==
    /\ call.pc = "loop"
    /\ LET id == call.id
           cmd == call.Commands[call.i]
           failed == Append(call.tried, [Command |-> cmd, ExitCode |-> 0, err |-> ExecErr(id)])
       IN /\ sessions' = AfterGet(id)
          /\ IF ExecErr(id) # ""
             THEN /\ history' = history
                  /\ call' = NoCall
                  /\ IF ~call.ContinueOnError
                     THEN ret' = Ret("ExecuteBatchCommands", id, ExecErr(id),
                                     BatchVal(call, TRUE, call.results, failed))
                     ELSE ret' = Ret("ExecuteBatchCommands", id,
                                     "panic: nil pointer dereference",
                                     BatchVal(call, TRUE, call.results, failed))
             ELSE /\ history' = AddToHistory(history, id, cmd)
                  /\ call' = [call EXCEPT !.pc = "running"]
                  /\ ret' = ret
    /\ UNCHANGED <<threads, files, now, tick, created, procs, io>>

\* The loop without its break.
StopsAfter_Never(code, coe) == FALSE

\* `if output.ExitCode != 0 && !request.ContinueOnError { break }`
StopsAfter(code, coe) == code # 0 /\ ~coe

\* The rest of the iteration: cmd.Run() returns, ExecuteCommand logs the
\* activity and returns its output, which is appended to results; the loop
\* breaks on a failure without continueOnError, and returns after the last
\* command.
BatchCommandReturn(code) ==
    /\ call.pc = "running"
    /\ call.kind = "batch"
    /\ sessions' = LogActivity(sessions, call.id, "Executed command")
    /\ LET cmd == call.Commands[call.i]
           results == Append(call.results, [Command |-> cmd, ExitCode |-> code])
           tried == Append(call.tried, [Command |-> cmd, ExitCode |-> code, err |-> ""])
       IN IF StopsAfter(code, call.ContinueOnError) \/ call.i = Len(call.Commands)
          THEN /\ ret' = Ret("ExecuteBatchCommands", call.id, "",
                             BatchVal(call, TRUE, results, tried))
               /\ call' = NoCall
          ELSE /\ call' = [call EXCEPT !.pc = "loop", !.i = @ + 1,
                                       !.results = results, !.tried = tried]
               /\ ret' = ret
    /\ UNCHANGED <<threads, files, now, tick, created, procs, io, history>>

\* The requests a client sends to the batch endpoint.
BatchRequests == UNION {[1..n -> Commands] : n \in 0..MaxBatch}

\* ------------------------------------- FileService and DirectoryService
\* Names a client passes as relativePath.
Names == {"d"}

\* filepath.Join(a, b) for a directory a and b a name or ".": empty elements
\* are ignored and the result is cleaned.
Join(a, b) ==
    IF a \in {"", "."} THEN b
    ELSE IF b = "." THEN a
    ELSE a \o "/" \o b

\* FileService.GetFilePath: "" when the path can be built, else the error.
GetFilePathErr(id) ==
    IF ~Found(id) THEN "session not found or inactive"
    ELSE IF sessions[id].WorkingDir = "" THEN "working directory not set for session"
    ELSE ""

\* path is a directory on the host.
IsDirectory(path) == path \in DOMAIN files /\ files[path] = "dir"

\* path is a regular file on the host.
IsFile(path) == path \in DOMAIN files /\ files[path] = "file"

\* The filesystem with path made an entry of the given kind.
WithEntry(path, kind) ==
    [q \in DOMAIN files \cup {path} |-> IF q = path THEN kind ELSE files[q]]

\* The filesystem without path and without the entries of Names below it.
WithoutEntry(path) ==
    [q \in DOMAIN files \ ({path} \cup {Join(path, n) : n \in Names}) |-> files[q]]

\* The outcome of a file or directory operation of session id whose system
\* calls returned syserr and left the filesystem as fsys: the activity is
\* logged on success only.
FileOutcome(op, id, syserr, fsys, val, activity) ==
    /\ files' = fsys
    /\ ret' = Ret(op, id, syserr, val)
    /\ sessions' = IF syserr = "" THEN LogActivity(AfterGet(id), id, activity)
                   ELSE AfterGet(id)

\* FileService.CreateFile: os.MkdirAll of the parent, which exists for the
\* names of the model, then ioutil.WriteFile.
CreateFile(id, rel) ==
    /\ IF GetFilePathErr(id) # ""
       THEN /\ ret' = Ret("CreateFile", id, GetFilePathErr(id), <<>>)
            /\ sessions' = AfterGet(id)
            /\ files' = files
       ELSE LET path == Join(sessions[id].WorkingDir, rel) IN
            IF IsDirectory(path)
            THEN FileOutcome("CreateFile", id, "is a directory", files, <<>>, "")
            ELSE FileOutcome("CreateFile", id, "", WithEntry(path, "file"), <<>>,
                             "Created file")
    /\ UNCHANGED <<threads, now, tick, created, procs, io, history, call>>

\* FileService.ReadFile.
ReadFile(id, rel) ==
    /\ IF GetFilePathErr(id) # ""
       THEN /\ ret' = Ret("ReadFile", id, GetFilePathErr(id), <<>>)
            /\ sessions' = AfterGet(id)
            /\ files' = files
       ELSE LET path == Join(sessions[id].WorkingDir, rel) IN
            IF ~IsFile(path)
            THEN FileOutcome("ReadFile", id, "no such file or is a directory", files, <<>>, "")
            ELSE FileOutcome("ReadFile", id, "", files, [read |-> path], "Read file")
    /\ UNCHANGED <<threads, now, tick, created, procs, io, history, call>>

\* FileService.DeleteFile: os.Remove takes a file or an empty directory.
DeleteFile(id, rel) ==
    /\ IF GetFilePathErr(id) # ""
       THEN /\ ret' = Ret("DeleteFile", id, GetFilePathErr(id), <<>>)
            /\ sessions' = AfterGet(id)
            /\ files' = files
       ELSE LET path == Join(sessions[id].WorkingDir, rel) IN
            IF path \notin DOMAIN files
            THEN FileOutcome("DeleteFile", id, "no such file or directory", files, <<>>, "")
            ELSE FileOutcome("DeleteFile", id, "", WithoutEntry(path), <<>>, "Deleted file")
    /\ UNCHANGED <<threads, now, tick, created, procs, io, history, call>>

\* DirectoryService.ListDirectories: the names of the directories in
\* filepath.Join(session.WorkingDir, relativePath), as ioutil.ReadDir gives
\* them.  The working directory is not tested.
ListDirectories(id, rel) ==
    /\ IF ~Found(id)
       THEN /\ ret' = Ret("ListDirectories", id, "session not found or inactive", <<>>)
            /\ sessions' = sessions
            /\ files' = files
       ELSE LET path == Join(sessions[id].WorkingDir, rel) IN
            IF ~IsDirectory(path)
            THEN FileOutcome("ListDirectories", id, "no such file or not a directory",
                             files, <<>>, "")
            ELSE FileOutcome("ListDirectories", id, "", files,
                             [read |-> path,
                              dirs |-> {n \in Names : IsDirectory(Join(path, n))}],
                             "Listed directories")
    /\ UNCHANGED <<threads, now, tick, created, procs, io, history, call>>

\* DirectoryService.CreateDirectory: os.MkdirAll succeeds on an existing
\* directory and fails on a file.  The working directory is not tested.
CreateDirectory(id, rel) ==
    /\ IF ~Found(id)
       THEN /\ ret' = Ret("CreateDirectory", id, "session not found or inactive", <<>>)
            /\ sessions' = sessions
            /\ files' = files
       ELSE LET path == Join(sessions[id].WorkingDir, rel) IN
            IF IsFile(path)
            THEN FileOutcome("CreateDirectory", id, "not a directory", files, <<>>, "")
            ELSE FileOutcome("CreateDirectory", id, "", WithEntry(path, "dir"), <<>>,
                             "Created directory")
    /\ UNCHANGED <<threads, now, tick, created, procs, io, history, call>>

\* DirectoryService.DeleteDirectory: os.RemoveAll removes the path and what
\* is below it, and succeeds when there is nothing.  The working directory is
\* not tested.
DeleteDirectory(id, rel) ==
    /\ IF ~Found(id)
       THEN /\ ret' = Ret("DeleteDirectory", id, "session not found or inactive", <<>>)
            /\ sessions' = sessions
            /\ files' = files
       ELSE LET path == Join(sessions[id].WorkingDir, rel) IN
            FileOutcome("DeleteDirectory", id, "", WithoutEntry(path), <<>>,
                        "Deleted directory")
    /\ UNCHANGED <<threads, now, tick, created, procs, io, history, call>>

\* ------------------------------------------- SessionManager, lock by lock
\* The methods of SessionManager and EnvService as the sequences of lock
\* operations, lookups and field accesses their goroutine performs.  The
\* locks are sm.mutex ("registry.w" for Lock, "registry.r" for RLock) and
\* session.Lock ("session").

\* One step of a method: its kind, its argument, and where a jump goes.
Ins(k, a, to) == [k |-> k, a |-> a, to |-> to]

\* The body of LogActivity placed after position base of its caller; its
\* early return leaves at base + 8.
LogActivitySteps(base) ==
    << Ins("acquire", "registry.r", 0),
       Ins("lookup", "found", 0),
       Ins("release", "registry.r", 0),
       Ins("branch", "", base + 8),
       Ins("acquire", "session", 0),
       Ins("write", "ActivityLog", 0),
       Ins("release", "session", 0) >>

\* The variables of the batch a client sends to SetBatchEnvVars, in the order
\* the range over the request's map yields them.
BatchKeys == <<"A", "B">>

\* The steps of each method, in program order.  ExecuteCommand is followed up
\* to the point where it has composed the environment of the command from
\* session.EnvVars.
Code(op) ==
    CASE op = "LogActivity" ->
           LogActivitySteps(0) \o << Ins("return", "", 0) >>
      [] op = "GetSession" ->
           << Ins("acquire", "registry.r", 0),
              Ins("lookup", "found", 0),
              Ins("branch", "", 5),
              Ins("write", "LastActive", 0),
              Ins("release", "registry.r", 0),
              Ins("return", "", 0) >>
      [] op = "DeleteSession" ->
           << Ins("acquire", "registry.w", 0),
              Ins("lookup", "exists", 0),
              Ins("branch", "", 6),
              Ins("terminate", "", 0),
              Ins("delete", "", 0),
              Ins("release", "registry.w", 0),
              Ins("return", "", 0) >>
      [] op = "SetWorkingDirectory" ->
           << Ins("acquire", "registry.w", 0),
              Ins("lookup", "found", 0),
              Ins("branch", "", 6),
              Ins("write", "WorkingDir", 0),
              Ins("write", "ActivityLog", 0),
              Ins("release", "registry.w", 0),
              Ins("return", "", 0) >>
      [] op = "SessionManager.SetEnvVar" ->
           << Ins("acquire", "registry.w", 0),
              Ins("lookup", "found", 0),
              Ins("branch", "", 12),
              Ins("write", "EnvVars", 0) >>
           \o LogActivitySteps(4)
           \o << Ins("release", "registry.w", 0),
                 Ins("return", "", 0) >>
      [] op = "SessionManager.UnsetEnvVar" ->
           << Ins("acquire", "registry.w", 0),
              Ins("lookup", "found", 0),
              Ins("branch", "", 13),
              Ins("haskey", "EnvVars", 13),
              Ins("write", "EnvVars", 0) >>
           \o LogActivitySteps(5)
           \o << Ins("release", "registry.w", 0),
                 Ins("return", "", 0) >>
      [] op = "SessionManager.GetEnvVars" ->
           << Ins("acquire", "registry.r", 0),
              Ins("lookup", "found", 0),
              Ins("branch", "", 5),
              Ins("read", "EnvVars", 0),
              Ins("release", "registry.r", 0),
              Ins("return", "", 0) >>
      [] op = "ListProcesses" ->
           << Ins("acquire", "registry.r", 0),
              Ins("lookup", "found", 0),
              Ins("branch", "", 8),
              Ins("read", "RunningProcesses", 0),
              Ins("isrunning", "", 8),
              Ins("exitcode", "", 0),
              Ins("goto", "", 5),
              Ins("release", "registry.r", 0),
              Ins("return", "", 0) >>
      [] op = "EnvService.SetEnvVar" ->
           << Ins("acquire", "registry.r", 0),
              Ins("lookup", "exists", 0),
              Ins("release", "registry.r", 0),
              Ins("branch", "", 8),
              Ins("acquire", "session", 0),
              Ins("write", "EnvVars", 0),
              Ins("release", "session", 0),
              Ins("return", "", 0) >>
      [] op = "EnvService.GetEnvVars" ->
           << Ins("acquire", "registry.r", 0),
              Ins("lookup", "exists", 0),
              Ins("release", "registry.r", 0),
              Ins("branch", "", 8),
              Ins("acquire", "session", 0),
              Ins("read", "EnvVars", 0),
              Ins("release", "session", 0),
              Ins("return", "", 0) >>
      [] op = "EnvService.SetBatchEnvVars" ->
           << Ins("acquire", "registry.r", 0),
              Ins("lookup", "exists", 0),
              Ins("release", "registry.r", 0),
              Ins("branch", "", 9),
              Ins("acquire", "session", 0),
              Ins("write", "EnvVars", 1),
              Ins("write", "EnvVars", 2),
              Ins("release", "session", 0),
              Ins("return", "", 0) >>
      [] op = "ExecuteCommand" ->
           << Ins("acquire", "registry.r", 0),
              Ins("lookup", "found", 0),
              Ins("branch", "", 5),
              Ins("write", "LastActive", 0),
              Ins("release", "registry.r", 0),
              Ins("branch", "", 12),
              Ins("lookup", "WorkingDir", 0),
              Ins("branch", "", 12),
              Ins("history", "", 0),
              Ins("read", "EnvVars", 0),
              Ins("read", "EnvVars", 0),
              Ins("return", "", 0) >>
      [] op = "cleanupExpiredSessions" ->
           << Ins("acquire", "registry.w", 0),
              Ins("clock", "", 0),
              Ins("range", "", 7),
              Ins("terminate", "", 0),
              Ins("delete", "", 0),
              Ins("goto", "", 3),
              Ins("release", "registry.w", 0),
              Ins("return", "", 0) >>

\* The step goroutine t is about to perform.
At(t) == Code(threads[t].op)[threads[t].pc]

Running(t) == threads[t].op # "idle"

\* The locks with an RLock that does not wait for the writer.
Free_ReadersPassWriter(t, l) ==
    CASE l = "registry.w" ->
           \A u \in Threads : threads[u].holds \cap {"registry.w", "registry.r"} = {}
      [] l = "registry.r" -> TRUE
      [] l = "session" ->
           \A u \in Threads : "session" \in threads[u].holds => threads[u].id # threads[t].id

\* sync.RWMutex and sync.Mutex: whether goroutine t may take lock l now.  A
\* goroutine's own hold excludes it like anybody else's (no lock of the
\* sync package is re-entrant).
Free(t, l) ==
    CASE l = "registry.w" ->
           \A u \in Threads : threads[u].holds \cap {"registry.w", "registry.r"} = {}
      [] l = "registry.r" ->
           \A u \in Threads : "registry.w" \notin threads[u].holds
      [] l = "session" ->
           \A u \in Threads : "session" \in threads[u].holds => threads[u].id # threads[t].id

\* Goroutine t moves to position pc.
Goes(t, pc) == threads' = [threads EXCEPT ![t].pc = pc]

\* A request arrives: goroutine t starts method op on session id.
Begin(t, op, id) ==
    /\ ~Running(t)
    /\ threads' = [threads EXCEPT ![t] = [Idle EXCEPT !.op = op, !.id = id, !.pc = 1]]
    /\ UNCHANGED <<now, tick, created, sessions, procs, io, history, call, ret, files>>

\* `for range sm.cleanupTicker.C`: the sweeper receives a tick.
SweeperBegin ==
    /\ tick
    /\ ~Running("sweeper")
    /\ tick' = FALSE
    /\ threads' = [threads EXCEPT !["sweeper"] =
                     [Idle EXCEPT !.op = "cleanupExpiredSessions", !.pc = 1]]
    /\ UNCHANGED <<now, created, sessions, procs, io, history, call, ret, files>>

\* Lock(), RLock(): the goroutine waits until the lock is free.
Acquire(t) ==
    /\ Running(t)
    /\ At(t).k = "acquire"
    /\ Free(t, At(t).a)
    /\ threads' = [threads EXCEPT ![t].pc = @ + 1, ![t].holds = @ \cup {At(t).a}]
    /\ UNCHANGED <<now, tick, created, sessions, procs, io, history, call, ret, files>>

\* Unlock(), RUnlock(), also when deferred.
Release(t) ==
    /\ Running(t)
    /\ At(t).k = "release"
    /\ threads' = [threads EXCEPT ![t].pc = @ + 1, ![t].holds = @ \ {At(t).a}]
    /\ UNCHANGED <<now, tick, created, sessions, procs, io, history, call, ret, files>>

\* `session, exists := sm.sessions[id]`: the goroutine keeps the answer.
\* Also `if session.WorkingDir == ""` of ExecuteCommand.
Lookup(t) ==
    /\ Running(t)
    /\ At(t).k = "lookup"
    /\ threads' = [threads EXCEPT
                     ![t].pc = @ + 1,
                     ![t].found =
                        CASE At(t).a = "found" -> Found(threads[t].id)
                          [] At(t).a = "exists" -> Exists(threads[t].id)
                          [] At(t).a = "WorkingDir" ->
                               /\ threads[t].id \in DOMAIN sessions
                               /\ sessions[threads[t].id].WorkingDir # ""]
    /\ UNCHANGED <<now, tick, created, sessions, procs, io, history, call, ret, files>>

\* `if !exists || !session.IsActive { return ... }`.
Branch(t) ==
    /\ Running(t)
    /\ At(t).k = "branch"
    /\ Goes(t, IF threads[t].found THEN threads[t].pc + 1 ELSE At(t).to)
    /\ UNCHANGED <<now, tick, created, sessions, procs, io, history, call, ret, files>>

\* `if _, exists := session.EnvVars[key]; exists {` of UnsetEnvVar.
HasKey(t) ==
    /\ Running(t)
    /\ At(t).k = "haskey"
    /\ Goes(t, IF /\ threads[t].id \in DOMAIN sessions
                  /\ "A" \in DOMAIN sessions[threads[t].id].EnvVars
               THEN threads[t].pc + 1 ELSE At(t).to)
    /\ UNCHANGED <<now, tick, created, sessions, procs, io, history, call, ret, files>>

\* The end of an iteration of a loop: the sweeper's over sm.sessions, that of
\* ListProcesses over session.RunningProcesses.
Goto(t) ==
    /\ Running(t)
    /\ At(t).k = "goto"
    /\ Goes(t, At(t).to)
    /\ UNCHANGED <<now, tick, created, sessions, procs, io, history, call, ret, files>>

\* What the write at the goroutine's position stores in session s.
Written(t, s) ==
    LET op == threads[t].op
        f == At(t).a
    IN CASE f = "LastActive" -> Touch(s)
         [] f = "WorkingDir" -> [Touch(s) EXCEPT !.WorkingDir = Abs("/tmp")]
         [] f = "ActivityLog" /\ op = "SetWorkingDirectory" ->
              [s EXCEPT !.ActivityLog = Append(@, "Set working directory")]
         [] f = "ActivityLog" /\ op # "SetWorkingDirectory" ->
              [s EXCEPT !.ActivityLog = LastN(Append(@, op), ActivityLogCap)]
         [] f = "EnvVars" /\ op = "SessionManager.UnsetEnvVar" ->
              [s EXCEPT !.EnvVars = MapDelete(@, "A")]
         [] f = "EnvVars" /\ op = "EnvService.SetBatchEnvVars" ->
              [s EXCEPT !.EnvVars = MapSet(@, BatchKeys[At(t).to], "1")]
         [] f = "EnvVars" /\ op \notin {"SessionManager.UnsetEnvVar",
                                        "EnvService.SetBatchEnvVars"} ->
              [s EXCEPT !.EnvVars = MapSet(@, "A", "1")]

\* A read or a write of a field of the goroutine's session.  A session
\* deleted meanwhile is no longer in the registry: the write goes to the
\* object the goroutine still points to.
Access(t) ==
    /\ Running(t)
    /\ At(t).k \in {"read", "write"}
    /\ LET id == threads[t].id
       IN /\ IF At(t).k = "write" /\ id \in DOMAIN sessions
             THEN /\ threads[t].op = "SetWorkingDirectory"
                       => Len(sessions[id].ActivityLog) < MaxLog
                  /\ sessions' = [sessions EXCEPT ![id] = Written(t, @)]
             ELSE sessions' = sessions
          /\ threads' = [threads EXCEPT
                ![t].pc = @ + 1,
                ![t].val = IF /\ At(t).k = "read"
                              /\ At(t).a = "EnvVars"
                              /\ id \in DOMAIN sessions
                           THEN sessions[id].EnvVars ELSE @]
    /\ UNCHANGED <<now, tick, created, procs, io, history, call, ret, files>>

\* `now := time.Now()` of the sweeper, once it has the lock.
Clock(t) ==
    /\ Running(t)
    /\ At(t).k = "clock"
    /\ threads' = [threads EXCEPT ![t].pc = @ + 1, ![t].val = now]
    /\ UNCHANGED <<now, tick, created, sessions, procs, io, history, call, ret, files>>

\* `for id, session := range sm.sessions { if session.ExpiresAt.Before(now)`:
\* the sweeper takes the next expired session, or leaves the loop.
Range(t) ==
    /\ Running(t)
    /\ At(t).k = "range"
    /\ IF Expired(threads[t].val) = {}
       THEN Goes(t, At(t).to)
       ELSE \E id \in Expired(threads[t].val) :
              threads' = [threads EXCEPT ![t].pc = @ + 1, ![t].id = id]
    /\ UNCHANGED <<now, tick, created, sessions, procs, io, history, call, ret, files>>

\* `for _, proc := range session.RunningProcesses { proc.Terminate() }`.
TerminateProcesses(t) ==
    /\ Running(t)
    /\ At(t).k = "terminate"
    /\ procs' = TerminateAll(procs, sessions[threads[t].id].RunningProcesses)
    /\ Goes(t, threads[t].pc + 1)
    /\ UNCHANGED <<now, tick, created, sessions, io, history, call, ret, files>>

\* `delete(sm.sessions, id)`.
Delete(t) ==
    /\ Running(t)
    /\ At(t).k = "delete"
    /\ sessions' = Restrict(sessions, DOMAIN sessions \ {threads[t].id})
    /\ Goes(t, threads[t].pc + 1)
    /\ UNCHANGED <<now, tick, created, procs, io, history, call, ret, files>>

\* ListProcesses, `IsRunning: process.IsRunning()` for the next process of
\* the map: Completed is read under process.Lock.  The loop ends when every
\* registered process has its entry.
IsRunning(t) ==
    /\ Running(t)
    /\ At(t).k = "isrunning"
    /\ LET todo == sessions[threads[t].id].RunningProcesses \ DOMAIN threads[t].val
       IN IF todo = {}
          THEN Goes(t, At(t).to)
          ELSE \E q \in todo :
                 threads' = [threads EXCEPT
                    ![t].pc = @ + 1,
                    ![t].cur = q,
                    ![t].val = [x \in DOMAIN @ \cup {q} |->
                                  IF x = q
                                  THEN [IsRunning |-> ~procs[q].Completed, ExitCode |-> 0]
                                  ELSE @[x]]]
    /\ UNCHANGED <<now, tick, created, sessions, procs, io, history, call, ret, files>>

\* ListProcesses, `ExitCode: process.ExitCode`, the next field of the same
\* literal: the field is read without process.Lock.
ReadExitCode(t) ==
    /\ Running(t)
    /\ At(t).k = "exitcode"
    /\ threads' = [threads EXCEPT
                     ![t].pc = @ + 1,
                     ![t].val[threads[t].cur].ExitCode = procs[threads[t].cur].ExitCode]
    /\ UNCHANGED <<now, tick, created, sessions, procs, io, history, call, ret, files>>

\* `cs.historyService.AddToHistory(sessionID, request.Command)`.
Record(t) ==
    /\ Running(t)
    /\ At(t).k = "history"
    /\ history' = AddToHistory(history, threads[t].id, "ls")
    /\ Goes(t, threads[t].pc + 1)
    /\ UNCHANGED <<now, tick, created, sessions, procs, io, call, ret, files>>

\* The method returns to the handler.
Return(t) ==
    /\ Running(t)
    /\ At(t).k = "return"
    /\ threads' = [threads EXCEPT ![t] = Idle]
    /\ ret' = IF t = "sweeper" THEN ret
              ELSE Ret(threads[t].op, threads[t].id,
                       IF threads[t].found THEN "" ELSE "session not found",
                       threads[t].val)
    /\ UNCHANGED <<now, tick, created, sessions, procs, io, history, call, files>>

\* ------------------------------------------------------------------ claims
\* How late the sweeper may be, beyond one sweep period, in removing an
\* expired session (Tick lets it be at most one period late).
Grace == 0

\* C4: for every session s and every time t > s.expires_at + sweep period +
\* grace, Get(s.id) fails: no session whose deadline has passed by more than
\* a sweep period is still found in the registry.
C4_ExpiredSessionsAreSwept ==
    \A id \in DOMAIN sessions :
        now > sessions[id].ExpiresAt + SweepPeriod + Grace => ~Found(id)

\* The only session ever created is gone although the last API call was its
\* creation: the sweeper removed it.
C4_Witness ==
    /\ created = 1
    /\ sessions = <<>>
    /\ ret.op = "CreateSession"
    /\ now > sessionExpiry

\* C5: a Get that succeeds leaves last_active = now and expires_at = now +
\* 24h on that session and nothing else changed; a Get that fails changes no
\* session.
C5_GetSlidesExpiry ==
    [][\A id \in SessionIds :
          GetSession(id) =>
             IF ret'.err = ""
             THEN /\ id \in DOMAIN sessions
                  /\ sessions' = [sessions EXCEPT
                        ![id].LastActive = now,
                        ![id].ExpiresAt = now + sessionExpiry]
             ELSE sessions' = sessions]_vars

\* A Get succeeded on a session whose clock values were older than now.
C5_Witness ==
    /\ ret.op = "GetSession"
    /\ ret.err = ""
    /\ ret.id \in DOMAIN sessions
    /\ sessions[ret.id].LastActive = now
    /\ sessions[ret.id].ExpiresAt = now + sessionExpiry
    /\ now > 0

\* C6: Get on a session that is still in the registry but whose expires_at
\* is earlier than now fails and does not extend the expiry.
C6_ExpiredSessionIsInactive ==
    [][\A id \in SessionIds :
          (GetSession(id) /\ id \in DOMAIN sessions
                          /\ sessions[id].ExpiresAt < now)
             => (ret'.err # "" /\ sessions' = sessions)]_vars

\* The lines 1..n in emission order.
Lines(n) == [i \in 1..n |-> i]

\* The last min(n, cap) of the lines 1..n.
Retained(n, cap) ==
    LET m == IF n < cap THEN n ELSE cap IN [i \in 1..m |-> n - m + i]

\* The registered processes of session id.
Owned(id) == {p \in DOMAIN procs : procs[p].session = id /\ procs[p].stage = "registered"}

\* C1: when Delete(s.id) has returned success, every process handle that was
\* registered under s is completed.
C1_DeleteAwaitsReaper ==
    (ret.op = "DeleteSession" /\ ret.err = "")
        => \A p \in Owned(ret.id) : procs[p].Completed

\* C2: once a caller has been told that a process is not running, the output
\* returned by GetOutput holds every line the child wrote to stdout and to
\* stderr (the last MaxLines of them).
C2_OutputCompleteOnceCompleted ==
    (ret.op = "GetOutput" /\ ret.err = "" /\ procs[ret.val.pid].seenDone)
        => /\ ret.val.Stdout = Retained(io[ret.val.pid]["Stdout"].emitted, MaxLines)
           /\ ret.val.Stderr = Retained(io[ret.val.pid]["Stderr"].emitted, MaxLines)

\* C3: whenever a session record leaves the registry, by Delete or by the
\* sweeper, each process it owns either had completed or has been sent a
\* kill by that step, and none of its children is left running.
C3_KillBeforeRemoval ==
    [][\A id \in DOMAIN sessions :
          id \notin DOMAIN sessions' =>
             \A p \in sessions[id].RunningProcesses :
                /\ procs[p].Completed \/ procs'[p].killed
                /\ procs'[p].child = "exited"]_vars

\* The sweeper has removed a session (the last API call started a process
\* in it) whose process had not completed, and the process has been killed.
C3_Witness ==
    /\ sessions = <<>>
    /\ ret.op = "StartProcess"
    /\ \E p \in DOMAIN procs :
          /\ procs[p].stage = "registered"
          /\ procs[p].killed
          /\ ~procs[p].Completed

\* The session-scoped operations that C7 lists, on session id.
SessionCall(id) ==
    \/ GetSession(id)
    \/ \E k \in EnvKeys, v \in EnvValues : SetEnvVar(id, k, v)
    \/ GetEnvVars(id)
    \/ \E k \in EnvKeys : UnsetEnvVar(id, k)
    \/ \E m \in [EnvKeys -> EnvValues] : SetBatchEnvVars(id, m)
    \/ ListProcesses(id)
    \/ \E pid \in ProcIds : GetOutput(id, pid)
    \/ \E pid \in ProcIds, input \in Inputs : SendInput(id, pid, input)
    \/ \E pid \in ProcIds, sig \in Signals, dies \in BOOLEAN : SignalProcess(id, pid, sig, dies)
    \/ \E limit \in {0, 1} : GetHistory(id, limit)
    \/ \E query \in Queries : SearchHistory(id, query)
    \/ ClearHistory(id)

\* C7: after any successful session-scoped call on session s, s.expires_at
\* is the time of the call + 24h.
C7_EveryCallSlidesExpiry ==
    [][\A id \in DOMAIN sessions :
          (SessionCall(id) /\ ret'.err = "")
             => sessions'[id].ExpiresAt = now + sessionExpiry]_vars

\* C8: each line buffer holds exactly the last min(n, MaxLines) of the n
\* lines its collector has read, in emission order.
C8_BufferIsLastLines ==
    \A pid \in DOMAIN io : \A st \in Streams :
        /\ io[pid][st].buf = Retained(io[pid][st].nread, MaxLines)
        /\ Len(io[pid][st].buf) <= MaxLines

\* A batch that passed validation has returned (and no later call runs).
BatchReturned(coe) ==
    /\ ret.op = "ExecuteBatchCommands"
    /\ ret.val.started
    /\ ret.val.ContinueOnError = coe
    /\ call.pc = "idle"

\* The outcome t of an ExecuteCommand call is a failure.
Failing(t) == t.err # "" \/ t.ExitCode # 0

\* The CommandOutput of outcome t.
Output(t) == [Command |-> t.Command, ExitCode |-> t.ExitCode]

\* The commands of the outcomes that passed validation and ran.
Ran(tried) ==
    LET ok(t) == t.err = "" IN [i \in 1..Len(SelectSeq(tried, ok)) |->
                                   SelectSeq(tried, ok)[i].Command]

\* The batch ran its commands one at a time in list order, stopped at the
\* first failing one, and the history holds the commands that ran and
\* nothing else.
StopsAtFirstFailure(v) ==
    LET n == Len(v.tried) IN
    /\ n <= Len(v.Commands)
    /\ \A i \in 1..n : v.tried[i].Command = v.Commands[i]
    /\ \A i \in 1..n : i < n => ~Failing(v.tried[i])
    /\ n < Len(v.Commands) => (n >= 1 /\ Failing(v.tried[n]))
    /\ HistoryOf(ret.id) = LastN(v.hist0 \o Ran(v.tried), maxSize)

\* C9 as stated: without continue_on_error the batch stops at the first
\* failing command and returns the results of the commands up to and
\* including the failing one.
C9_ResultsIncludeFailingOne ==
    BatchReturned(FALSE) =>
        /\ StopsAtFirstFailure(ret.val)
        /\ ret.val.results = [i \in 1..Len(ret.val.tried) |-> Output(ret.val.tried[i])]

\* C9 amended: the results are those of the commands that ran, up to and
\* including a command that failed with a non-zero exit code; a command
\* whose invocation errored has no result, the error is returned with the
\* results of the commands before it.
C9_ResultsOfCommandsThatRan ==
    BatchReturned(FALSE) =>
        LET v == ret.val
            ok(t) == t.err = ""
            ran == SelectSeq(v.tried, ok)
        IN /\ StopsAtFirstFailure(v)
           /\ v.results = [i \in 1..Len(ran) |-> Output(ran[i])]
           /\ ret.err = (IF v.tried # <<>> /\ v.tried[Len(v.tried)].err # ""
                         THEN v.tried[Len(v.tried)].err ELSE "")

\* A batch without continue_on_error stopped at its first command, which
\* exited non-zero, and returned that one result.
C9_Witness ==
    /\ BatchReturned(FALSE)
    /\ Len(ret.val.Commands) = 2
    /\ Len(ret.val.tried) = 1
    /\ ret.val.tried[1].err = ""
    /\ ret.val.tried[1].ExitCode # 0
    /\ Len(ret.val.results) = 1

\* C10: with continue_on_error the batch runs every command, whatever the
\* outcome of each, and returns one valid result per command in list order.
C10_ContinueRunsEveryCommand ==
    BatchReturned(TRUE) =>
        /\ ret.err = ""
        /\ Len(ret.val.tried) = Len(ret.val.Commands)
        /\ Len(ret.val.results) = Len(ret.val.Commands)
        /\ \A i \in 1..Len(ret.val.results) :
              ret.val.results[i].Command = ret.val.Commands[i]

\* Session id names no session, or a session without working directory.
Unusable(id) == id \notin DOMAIN sessions \/ sessions[id].WorkingDir = ""

\* A call of ExecuteCommand, ExecuteBatchCommands or StartProcess on
\* session id, an iteration of a running batch on it included.
ExecutionCall(id) ==
    \/ \E req \in PlainRequests, ok \in BOOLEAN : ExecuteCommand(id, req, ok)
    \/ \E cmds \in BatchRequests, coe \in BOOLEAN : ExecuteBatchCommands(id, cmds, coe)
    \/ (call.pc = "loop" /\ call.id = id /\ BatchCommandStart)
    \/ \E req \in PlainRequests, ok \in BOOLEAN : StartProcess(id, req, ok)

\* C11: Execute, Batch and StartProcess on an unknown session id or on a
\* session whose working_dir is empty fail with an error, and then spawn no
\* child, append nothing to the history log and register no process handle.
C11_UnusableSessionRunsNothing ==
    [][\A id \in SessionIds :
          (ExecutionCall(id) /\ Unusable(id))
             => /\ ret'.id = id
                /\ ret'.err # ""
                /\ procs' = procs
                /\ call' = call \/ call' = NoCall
                /\ history' = history
                /\ \A x \in DOMAIN sessions :
                      sessions'[x].RunningProcesses = sessions[x].RunningProcesses]_vars

\* An execution call has just failed on a session that exists and has no
\* working directory, and the history log holds nothing.
C11_Witness ==
    /\ ret.op \in {"ExecuteCommand", "ExecuteBatchCommands", "StartProcess"}
    /\ ret.err = "working directory not set for session"
    /\ ret.id \in DOMAIN sessions
    /\ sessions[ret.id].WorkingDir = ""
    /\ history = <<>>
    /\ procs = <<>>

\* ExecuteCommand has returned the result of a command it attempted.
Executed == ret.op = "ExecuteCommand" /\ ret.err = ""

\* The text of an error follows the child's output in the Stderr of r.
MessageAppended(r) ==
    /\ Len(r.Stderr) >= 2
    /\ r.Stderr[Len(r.Stderr) - 1] = "\n"

\* ExecuteCommand fails only in its validation, before it attempts anything.
AttemptsReturnResults ==
    ret.op = "ExecuteCommand" =>
        ret.err \in {"", "session not found or inactive",
                     "working directory not set for session"}

\* C12 as stated: Execute returns a result for every command it attempts;
\* exit_code is the OS exit code on normal exit; when the child exited by a
\* signal (the timeout kill included) or failed to start, exit_code = -1 and
\* the error message is appended to stderr.
C12_MessageOnSignalOrStartFailure ==
    /\ AttemptsReturnResults
    /\ Executed =>
          IF ret.val.started /\ ret.val.status >= 0
          THEN ret.val.result.ExitCode = ret.val.status
          ELSE /\ ret.val.result.ExitCode = -1
               /\ MessageAppended(ret.val.result)

\* C12 amended: exit_code is the OS exit code on normal exit and -1 when the
\* child exited by a signal, in both cases with stderr as the child wrote
\* it; when the child failed to start, exit_code = -1 and the error message
\* is appended to stderr.
C12_MessageOnStartFailureOnly ==
    /\ AttemptsReturnResults
    /\ Executed =>
          LET r == ret.val.result IN
          IF ret.val.started
          THEN /\ r.ExitCode = ret.val.status
               /\ r.Stderr = <<"stderr">>
          ELSE /\ r.ExitCode = -1
               /\ MessageAppended(r)

\* Execute has returned the result of a child that the timeout killed.
C12_Witness ==
    /\ Executed
    /\ ret.val.started
    /\ ret.val.timedOut
    /\ ret.val.status = -1
    /\ ret.val.result.ExitCode = -1

\* C13: when Execute with timeout_s > 0 returns for a command that was
\* still running as the timeout fired, the exit code is non-zero and the
\* call has not waited for any part of the command to end on its own.
C13_TimeoutEndsTheCall ==
    (Executed /\ ret.val.overran)
        => /\ ret.val.result.ExitCode # 0
           /\ ~ret.val.late

\* What the layering gives for k: the request's value, else the session's,
\* else the host's, else k is not set.
Layered(requestEnv, sessionEnv, k) ==
    IF k \in DOMAIN requestEnv THEN [set |-> TRUE, value |-> Chars(requestEnv[k])]
    ELSE IF k \in DOMAIN sessionEnv THEN [set |-> TRUE, value |-> Chars(sessionEnv[k])]
    ELSE IF k \in DOMAIN HostVars THEN [set |-> TRUE, value |-> Chars(HostVars[k])]
    ELSE [set |-> FALSE, value |-> <<>>]

\* The environment of child c (a background process or the child of a
\* foreground call) is the layering of the request and session it came from.
LayeredEnv(c) ==
    \A k \in EnvKeys \cup DOMAIN HostVars :
        Getenv(c.env, k) = Layered(c.Environment, c.EnvVars, k)

\* C14: for every key k, the value of k in the child environment built by
\* Execute and by StartProcess is request.env[k] if the request defines k,
\* else session.env_vars[k] if the session defines k, else the host value.
C14_EnvLayering ==
    /\ \A p \in DOMAIN procs : LayeredEnv(procs[p])
    /\ Executing => LayeredEnv(call)

\* A background child runs with a variable that host, session and request
\* all define, each with another value, and a foreground child too.
C14_Witness ==
    /\ \E p \in DOMAIN procs :
          /\ "A" \in DOMAIN procs[p].Environment
          /\ "A" \in DOMAIN procs[p].EnvVars
          /\ procs[p].Environment["A"] # procs[p].EnvVars["A"]
          /\ Getenv(procs[p].env, "A").value = Chars(procs[p].Environment["A"])
    /\ Executing
    /\ "A" \in DOMAIN call.Environment
    /\ "A" \in DOMAIN call.EnvVars
    /\ call.Environment["A"] = "a=b"

\* No session gains or loses a process handle in the step.
SameHandles ==
    \A x \in DOMAIN sessions' :
        /\ x \in DOMAIN sessions
        /\ sessions'[x].RunningProcesses = sessions[x].RunningProcesses

\* C15: whenever StartProcess returns an error (unknown session, working
\* directory unset, pipe or spawn failure, or the session deleted between
\* validation and registration), no handle has been added to any session's
\* process set and no child spawned by the call is left running.
C15_FailedStartLeavesNothing ==
    [][/\ \A id \in SessionIds, req \in PlainRequests, ok \in BOOLEAN :
            (StartProcess(id, req, ok) /\ (~ok \/ ExecErr(id) # ""))
               => /\ ret'.op = "StartProcess"
                  /\ ret'.err # ""
                  /\ procs' = procs
                  /\ SameHandles
       /\ \A pid \in ProcIds :
            (RegisterProcess(pid) /\ ret'.err # "")
               => /\ SameHandles
                  /\ \A x \in DOMAIN sessions' : pid \notin sessions'[x].RunningProcesses
                  /\ procs'[pid].child = "exited"]_vars

\* StartProcess has failed because the session was deleted after the child
\* was spawned: the child has been killed and belongs to no session.
C15_Witness ==
    /\ ret.op = "StartProcess"
    /\ ret.err = "session not found or inactive"
    /\ \E p \in DOMAIN procs :
          /\ procs[p].stage = "unregistered"
          /\ procs[p].killed
          /\ procs[p].child = "exited"
          /\ procs[p].session = ret.id
    /\ \A x \in DOMAIN sessions : sessions[x].RunningProcesses = {}

\* The reaper of process pid has recorded the exit of its child.
Reaped(pid) ==
    /\ procs[pid].Completed
    /\ procs[pid].ExitCode = procs[pid].status

\* C16: for every registered background process whose child exits, the
\* reaper eventually sets completed = true with exit_code = the OS exit code
\* on normal exit and -1 otherwise, and only after that closes both fan-out
\* channels; also when the owning session has been deleted in the meantime.
C16_ReaperCompletes ==
    /\ [](\A pid \in DOMAIN procs :
             procs[pid].reaper \in {"log", "sleep", "done"} => Reaped(pid))
    /\ \A pid \in ProcIds :
          (pid \in DOMAIN procs /\ procs[pid].stage = "registered"
                                /\ procs[pid].child = "exited")
             ~> (pid \in DOMAIN procs /\ procs[pid].reaper = "done"
                                       /\ Reaped(pid))

\* The reaper has closed the channels of a process that was killed when
\* its session was deleted, with exit code -1.
C16_Witness ==
    /\ sessions = <<>>
    /\ \E pid \in DOMAIN procs :
          /\ procs[pid].stage = "registered"
          /\ procs[pid].killed
          /\ procs[pid].reaper = "done"
          /\ procs[pid].Completed
          /\ procs[pid].ExitCode = -1

\* Process pid has been forcibly terminated: SignalProcess delivered SIGKILL
\* to it, or the deadline of its context passed.
ForciblyTerminated(pid) ==
    /\ pid \in DOMAIN procs
    /\ procs[pid].stage = "registered"
    /\ procs[pid].sigkill \/ procs[pid].timedOut

\* C17: a running background process that is forcibly terminated, by a
\* successful SignalProcess(SIGKILL) or because its positive timeout
\* elapsed, is eventually reported with isRunning = false by GetProcess, and
\* neither case surfaces as an API error; a process started with timeout 0
\* or absent is never killed by a timeout.
C17_ForcedTerminationIsReported ==
    /\ \A pid \in ProcIds :
          ForciblyTerminated(pid)
             ~> (pid \in DOMAIN procs /\ ~ProcessInfo(pid).IsRunning)
    /\ [][\A id \in SessionIds, pid \in ProcIds, dies \in BOOLEAN :
             (/\ SignalProcess(id, pid, "SIGKILL", dies)
              /\ GetProcessErr(id, pid) = ""
              /\ ~procs[pid].Completed)
                => ret'.err = "" /\ procs'[pid].child = "exited"]_vars
    /\ [][\A id \in SessionIds :
             (ListProcesses(id) /\ Found(id))
                => /\ ret'.err = ""
                   /\ \A q \in sessions[id].RunningProcesses :
                         (ForciblyTerminated(q) /\ procs[q].reaper # "wait")
                            => ~ret'.val[q].IsRunning]_vars
    /\ [](\A pid \in DOMAIN procs :
             procs[pid].Timeout = 0 => ~procs[pid].timedOut)

\* GetProcess has reported isRunning = false, with exit code -1, for a
\* process without timeout that SIGKILL ended.
C17_Witness ==
    /\ ret.op = "ListProcesses"
    /\ ret.err = ""
    /\ \E q \in DOMAIN ret.val :
          /\ ~ret.val[q].IsRunning
          /\ ret.val[q].ExitCode = -1
          /\ procs[q].sigkill
          /\ procs[q].Timeout = 0

\* C18: SignalProcess accepts exactly the names SIGTERM, SIGKILL, SIGINT and
\* SIGHUP; for any other signal name it returns InvalidArgument, delivers no
\* signal, and leaves the process and the activity log unchanged.
\* InvalidArgument is the kind of error answered with status 400.
C18_UnsupportedSignalIsInvalidArgument ==
    [][\A id \in SessionIds, pid \in ProcIds, sig \in Signals, dies \in BOOLEAN :
          (SignalProcess(id, pid, sig, dies) /\ GetProcessErr(id, pid) = "")
             => IF sig \in {"SIGTERM", "SIGKILL", "SIGINT", "SIGHUP"}
                THEN ~procs[pid].Completed => ret'.err = ""
                ELSE /\ ret'.err # ""
                     /\ ProcessHandlerStatus(ret') = 400
                     /\ procs' = procs
                     /\ sessions' = sessions]_vars

\* C19: SendInput fails with NotFound when the session or the process id is
\* unknown, and with FailedPrecondition when the process's stdin pipe has
\* been closed, in particular once the process has completed; whenever it
\* fails, nothing is written to the child and no activity is logged.
\* NotFound is the kind of error answered with status 404,
\* FailedPrecondition the kind answered with 400 or 500.
C19_SendInputFailures ==
    [][\A id \in SessionIds, pid \in NamedProcIds, input \in Inputs :
          SendInput(id, pid, input)
             => /\ GetProcessErr(id, pid) # ""
                      => ret'.err # "" /\ ProcessHandlerStatus(ret') = 404
                /\ (GetProcessErr(id, pid) = "" /\ procs[pid].child = "exited")
                      => /\ ret'.err # ""
                         /\ ProcessHandlerStatus(ret') \in {400, 500}
                /\ ret'.err # "" => procs' = procs /\ sessions' = sessions]_vars

\* C20: GetOutput returns a snapshot copy taken atomically under the buffer
\* mutex: what it returns is the content of both buffers at one instant,
\* and lines that the collectors append or evict after GetOutput has
\* returned never change the stdout and stderr sequences already returned.
C20_OutputIsSnapshot ==
    [][/\ \A id \in SessionIds, pid \in ProcIds :
             (GetOutput(id, pid) /\ GetProcessErr(id, pid) = "")
                => \A st \in Streams : ReadLines(ret.val, st)' = io[pid][st].buf
       /\ (ret.op = "GetOutput" /\ ret.err = "" /\ ret' = ret)
             => \A st \in Streams : ReadLines(ret.val, st)' = ReadLines(ret.val, st)]_vars

\* A returned stdout sequence was full, and a collector has since appended
\* a line to the buffer and evicted the oldest one.
C20_Witness ==
    /\ ret.op = "GetOutput"
    /\ ret.err = ""
    /\ Len(ret.val.Stdout) = MaxLines
    /\ ret.val.Stdout # <<>>
    /\ io[ret.val.pid]["Stdout"].buf = Tail(ret.val.Stdout) \o <<MaxLines + 1>>
    /\ ReadLines(ret.val, "Stdout") = ret.val.Stdout

\* C21: SetWorkingDir(id, path) succeeds only if path exists and is a
\* directory, and then stores its absolute form; for a missing path or a
\* path that is not a directory it fails with InvalidArgument (status 400
\* at the handler) and leaves the session's working_dir, last_active,
\* expires_at and activity_log unchanged.
C21_WorkingDirMustBeDirectory ==
    [][\A id \in SessionIds, dir \in Dirs :
          (SetWorkingDirectory(id, dir) /\ Found(id))
             => IF StatOk(dir) /\ IsDir(dir)
                THEN ret'.err = "" => sessions'[id].WorkingDir = Abs(dir)
                ELSE /\ ret'.err # ""
                     /\ sessions' = sessions]_vars

\* Session id was handed out by CreateSession and has been removed.
Deleted(id) == id \in 1..created /\ id \notin DOMAIN sessions

\* A process operation on session id.
ProcessOperation(id) ==
    \/ \E req \in PlainRequests, ok \in BOOLEAN : StartProcess(id, req, ok)
    \/ ListProcesses(id)
    \/ \E pid \in NamedProcIds : GetOutput(id, pid)
    \/ \E pid \in NamedProcIds, input \in Inputs : SendInput(id, pid, input)
    \/ \E pid \in NamedProcIds, sig \in Signals, dies \in BOOLEAN :
          SignalProcess(id, pid, sig, dies)

\* C22: after Delete(id) has returned success, Get(id), a second Delete(id)
\* and every process operation on id (StartProcess, ListProcesses or
\* GetProcess, GetOutput, SendInput, SignalProcess) fail with NotFound
\* (status 404), and every other session is left unchanged.
C22_DeletedSessionIsNotFound ==
    [][\A id \in SessionIds :
          /\ (DeleteSession(id) /\ id \in DOMAIN sessions)
                => \A o \in DOMAIN sessions \ {id} :
                      o \in DOMAIN sessions' /\ sessions'[o] = sessions[o]
          /\ (Deleted(id) /\ (GetSession(id) \/ DeleteSession(id)))
                => /\ ret'.err # ""
                   /\ SessionHandlerStatus(ret') = 404
                   /\ UNCHANGED <<sessions, procs, history>>
          /\ (Deleted(id) /\ ProcessOperation(id))
                => /\ ret'.err # ""
                   /\ ProcessHandlerStatus(ret') = 404
                   /\ UNCHANGED <<sessions, procs, history>>]_vars

\* Maps m and n agree outside the keys of K: the same keys, the same values.
SameOutside(m, n, K) ==
    /\ DOMAIN m \ K = DOMAIN n \ K
    /\ \A o \in DOMAIN m \ K : m[o] = n[o]

\* C23: for every session, key k and value v: after Set(k, v), or SetBatch
\* with k -> v, Get returns a map containing k -> v; after Unset(k), Get
\* returns a map without k; Unset of an absent key succeeds; none of these
\* operations changes the value of any other key.
C23_EnvMapLaws ==
    [][\A id \in DOMAIN sessions :
          LET old == sessions[id].EnvVars
              new == sessions'[id].EnvVars
          IN /\ GetEnvVars(id) => ret'.err = "" /\ ret'.val = old
             /\ \A k \in EnvKeys :
                   /\ \A v \in EnvValues :
                         SetEnvVar(id, k, v)
                            => /\ ret'.err = ""
                               /\ k \in DOMAIN new /\ new[k] = v
                               /\ SameOutside(old, new, {k})
                   /\ UnsetEnvVar(id, k)
                         => /\ ret'.err = ""
                            /\ k \notin DOMAIN new
                            /\ SameOutside(old, new, {k})
             /\ \A K \in SUBSET EnvKeys : \A m \in [K -> EnvValues] :
                   SetBatchEnvVars(id, m)
                      => /\ ret'.err = ""
                         /\ \A k \in K : k \in DOMAIN new /\ new[k] = m[k]
                         /\ SameOutside(old, new, K)]_vars

\* Get has returned a map in which A is set and SHELL still has the value
\* the session was created with.
C23_Witness ==
    /\ ret.op = "GetEnvVars"
    /\ ret.err = ""
    /\ DOMAIN ret.val = {"SHELL", "A"}
    /\ ret.val["A"] = "/bin/sh"
    /\ ret.val["SHELL"] = "/bin/bash"

\* Session id passes the validation of the session and its working directory.
Valid(id) == Found(id) /\ sessions[id].WorkingDir # ""

\* This step has appended one entry carrying cmd to the history of session
\* id, the log being a ring of maxSize entries, and changed no other log.
AppendedOne(id, cmd) ==
    LET old == IF id \in DOMAIN history THEN history[id] ELSE <<>>
        new == history'[id]
        kept == IF Len(old) < maxSize THEN old ELSE SubSeq(old, 2, Len(old))
    IN /\ DOMAIN history' = DOMAIN history \cup {id}
       /\ new = kept \o <<cmd>>
       /\ \A o \in DOMAIN history \ {id} : history'[o] = history[o]

\* C24: every Execute and StartProcess call that passes session and
\* working_dir validation appends exactly one entry carrying its command
\* string to that session's history, also when the command fails to start
\* or exits non-zero; a Batch appends one entry per command it actually
\* executed, in execution order.  Nothing else appends to a history.
C24_OneHistoryEntryPerCommand ==
    [][/\ \A id \in DOMAIN sessions :
             Valid(id)
                => /\ \A req \in PlainRequests, started \in BOOLEAN :
                         (ExecuteCommand(id, req, started) \/ StartProcess(id, req, started))
                            => AppendedOne(id, req.Command)
                   /\ (call.pc = "loop" /\ call.id = id /\ BatchCommandStart)
                         => AppendedOne(id, call.Commands[call.i])
       /\ history' # history
             => \E id \in DOMAIN sessions :
                   /\ Valid(id)
                   /\ \/ \E req \in PlainRequests, started \in BOOLEAN :
                            ExecuteCommand(id, req, started) \/ StartProcess(id, req, started)
                      \/ call.pc = "loop" /\ call.id = id /\ BatchCommandStart]_vars

\* A batch of two different commands has returned after the first one
\* exited non-zero and the second one ran: the history ends with both, in
\* the order of the list.
C24_Witness ==
    /\ ret.op = "ExecuteBatchCommands"
    /\ ret.err = ""
    /\ ret.val.Commands = <<"make", "ls">>
    /\ Len(ret.val.tried) = 2
    /\ ret.val.tried[1].ExitCode # 0
    /\ ret.id \in DOMAIN history
    /\ history[ret.id] = <<"make", "ls">>

\* C25: a successful SignalProcess delivers the signal to the child's whole
\* process group: every process spawned by the shell command, not only the
\* shell itself, receives it.  SIGKILL cannot be handled, so a process that
\* has received it no longer runs.
C25_SignalReachesGroup ==
    [][\A id \in SessionIds, pid \in ProcIds, dies \in BOOLEAN :
          (SignalProcess(id, pid, "SIGKILL", dies) /\ ret'.err = "")
             => /\ procs'[pid].child # "running"
                /\ procs'[pid].descendant # "running"]_vars

\* C26: every file and directory operation of the file service on a session
\* whose working directory has not been set fails with an error and does
\* not read or modify the filesystem.
C26_NoWorkingDirNoFileAccess ==
    [][\A id \in DOMAIN sessions : \A rel \in Names \cup {"."} :
          (/\ sessions[id].WorkingDir = ""
           /\ \/ CreateFile(id, rel) \/ ReadFile(id, rel) \/ DeleteFile(id, rel)
              \/ ListDirectories(id, rel) \/ CreateDirectory(id, rel)
              \/ DeleteDirectory(id, rel))
             => /\ ret'.err # ""
                /\ files' = files
                /\ ret'.val = <<>>]_vars

\* C28: no goroutine ever requests the registry lock while it already holds
\* the registry lock or a session's mutex; in particular no registry-locked
\* method calls LogActivity, which takes the registry lock again, so every
\* method reaches its return.
C28_NoRegistryReentry ==
    \A t \in Threads :
        (/\ Running(t)
         /\ At(t).k = "acquire"
         /\ At(t).a \in {"registry.w", "registry.r"})
            => threads[t].holds = {}

\* The fields of a session its mutex is documented to protect.
SessionFields == {"WorkingDir", "EnvVars", "ActivityLog", "RunningProcesses"}

\* Goroutine t is about to read or write one of the protected fields.
Accessing(t) ==
    /\ Running(t)
    /\ At(t).k \in {"read", "write", "haskey"}
    /\ At(t).a \in SessionFields

\* C29: every read and every write of a session's working directory,
\* environment, activity log and process map happens while the goroutine
\* holds that session's mutex, so two goroutines are never at accesses of the
\* same field of one session when one of the accesses is a write.
C29_SessionFieldsUnderSessionMutex ==
    /\ \A t \in ApiThreads : Accessing(t) => "session" \in threads[t].holds
    /\ \A t, u \in ApiThreads :
          (/\ t # u
           /\ Accessing(t)
           /\ Accessing(u)
           /\ threads[t].id = threads[u].id
           /\ At(t).a = At(u).a)
             => At(t).k # "write"

\* C30: the sweeper never terminates a process while it holds the registry
\* lock: whenever its loop kills a process of an expired session, the lock
\* has been released before.
C30_SweeperKillsOutsideRegistryLock ==
    [][(TerminateProcesses("sweeper") /\ procs' # procs)
          => "registry.w" \notin threads["sweeper"].holds]_vars

\* C31: a collector that offers a line to a fan-out channel the reaper has
\* closed does not fail: no interleaving of reaper and collector reaches a
\* state in which the send on the closed channel has crashed the collector.
C31_SendOnClosedChannelIsSwallowed ==
    \A pid \in DOMAIN io : \A st \in Streams : ~io[pid][st].panicked

\* C32: a collector never blocks on its fan-out channel and every line it
\* reads reaches the line buffer whatever the state of the channel: each
\* iteration of its loop appends the line it took from the scanner.
C32_EveryLineReachesTheBuffer ==
    [][\A pid \in DOMAIN io : \A st \in Streams :
          CollectorScan(pid, st)
             => io'[pid][st].buf = AppendLine(io[pid][st].buf, Head(io[pid][st].scan))]_vars

\* C33: every ProcessInfo returned by ListProcesses is a consistent snapshot
\* of its handle: an entry that says the process is running carries the exit
\* code of a handle that has not completed (the zero of the Process
\* literal), and an entry that says it is not running carries the exit code
\* recorded at completion.
C33_ProcessInfoIsSnapshot ==
    (ret.op = "ListProcesses" /\ ret.err = "")
        => \A q \in DOMAIN ret.val :
              IF ret.val[q].IsRunning
              THEN ret.val[q].ExitCode = 0
              ELSE ret.val[q].ExitCode = procs[q].ExitCode

\* The environment a reader got holds every variable of the batch or none.
AllOrNothing(env) ==
    LET keys == {BatchKeys[i] : i \in DOMAIN BatchKeys}
    IN keys \subseteq DOMAIN env \/ keys \cap DOMAIN env = {}

\* C34: SetBatch is atomic for every reader of the session environment: what
\* a concurrent env Get or Execute has read holds all the assignments of the
\* batch or none of them, and no reader is at its read of the map while the
\* batch is between two of its writes.
C34_SetBatchIsAtomic ==
    /\ (ret.op \in {"EnvService.GetEnvVars", "ExecuteCommand"} /\ ret.err = "")
          => AllOrNothing(ret.val)
    /\ \A t, u \in ApiThreads :
          (/\ Running(t)
           /\ threads[t].op = "EnvService.SetBatchEnvVars"
           /\ At(t).k = "write"
           /\ At(t).to = 2
           /\ Running(u))
             => ~(At(u).k = "read" /\ At(u).a = "EnvVars")

\* C35: in every reachable state the activity log of every session holds at
\* most its capacity of entries (100 in the code), whatever sequence of
\* session creation, SetWorkingDirectory and LogActivity has run.
C35_ActivityLogIsBounded ==
    \A id \in DOMAIN sessions : Len(sessions[id].ActivityLog) <= ActivityLogCap

\* The shell the claim has StartProcess choose for a session environment.
ValidShellOrBash(env) ==
    IF "SHELL" \in DOMAIN env /\ env["SHELL"] # "" /\ CanExec(env["SHELL"])
    THEN env["SHELL"] ELSE "/bin/bash"

\* C36: StartProcess runs the command with the session's SHELL only if that
\* value is non-empty and names an executable regular file, and with
\* /bin/bash in every other case: the process it creates has that shell, and
\* a start that fails is the failed start of that shell.
C36_ShellIsValidatedOrBash ==
    [][\A ok \in BOOLEAN :
          (/\ StartProcess(1, Request("ls", 0, <<>>), ok)
           /\ Found(1)
           /\ sessions[1].WorkingDir # "")
             => LET shell == ValidShellOrBash(sessions[1].EnvVars)
                IN IF ok
                   THEN \A q \in DOMAIN procs' \ DOMAIN procs : procs'[q].shellPath = shell
                   ELSE ret'.err = StartError(shell)]_vars

\* C37: for every process handle, completed changes only from false to true,
\* and once it is true the handle's exit code, command and session never
\* change again, whatever SignalProcess, SendInput, Terminate or session
\* deletion occurs afterwards.
C37_CompletedHandleIsFrozen ==
    [][\A q \in DOMAIN procs :
          /\ q \in DOMAIN procs'
          /\ procs[q].Completed
               => /\ procs'[q].Completed
                  /\ procs'[q].ExitCode = procs[q].ExitCode
                  /\ procs'[q].Command = procs[q].Command
                  /\ procs'[q].session = procs[q].session]_vars

\* A process that completed with exit code 1 and whose session was deleted
\* afterwards: Terminate found it completed and did not kill it.
C37_Witness ==
    \E q \in DOMAIN procs :
        /\ procs[q].Completed
        /\ procs[q].ExitCode = 1
        /\ ~procs[q].killed
        /\ procs[q].session \notin DOMAIN sessions
        /\ ret.op = "DeleteSession"

C39_SweeperRemovesOnlyExpired ==
    [][(Delete("sweeper") /\ threads["sweeper"].op = "cleanupExpiredSessions")
          => sessions[threads["sweeper"].id].ExpiresAt < threads["sweeper"].val]_vars

\* The sweeper has just deleted the only session, at a time later than the
\* sweep that follows the session's first deadline: a Get had slid the expiry
\* and the earlier sweeps spared the session.
C39_Witness ==
    /\ threads["sweeper"].op = "cleanupExpiredSessions"
    /\ At("sweeper").k = "goto"
    /\ sessions = <<>>
    /\ threads["sweeper"].val > sessionExpiry + SweepPeriod
    /\ ret.op = "GetSession"
    /\ ret.err = ""

\* C40: deleting a session cleans up all state kept under its id: once the
\* session is gone, by Delete or by the sweeper, GetHistory and SearchHistory
\* on its id return no entries.
C40_HistoryGoesWithTheSession ==
    [][\A id \in SessionIds :
          (/\ id \notin DOMAIN sessions
           /\ \/ \E limit \in {0, 1} : GetHistory(id, limit)
              \/ \E query \in Queries : SearchHistory(id, query))
          => ret'.val = <<>>]_vars

\* ---------------------------------------------------------- specifications
\* The registry after CreateSession and SetWorkingDirectory(1, "/tmp").
InitSession ==
    /\ now = 0
    /\ files = HostFiles
    /\ threads = [t \in Threads |-> Idle]
    /\ tick = FALSE
    /\ created = 1
    /\ sessions = [id \in {1} |->
                     [NewSession EXCEPT
                        !.WorkingDir = "/tmp",
                        !.ActivityLog = <<"Session created", "Set working directory">>]]
    /\ procs = <<>>
    /\ io = <<>>
    /\ history = <<>>
    /\ call = NoCall
    /\ ret = Ret("SetWorkingDirectory", 1, "", <<>>)

\* The registry after CreateSession: one session without working directory.
InitCreated ==
    /\ now = 0
    /\ files = HostFiles
    /\ threads = [t \in Threads |-> Idle]
    /\ tick = FALSE
    /\ created = 1
    /\ sessions = [id \in {1} |-> NewSession]
    /\ procs = <<>>
    /\ io = <<>>
    /\ history = <<>>
    /\ call = NoCall
    /\ ret = Ret("CreateSession", 1, "", <<>>)

\* The service after CreateSession, SetWorkingDirectory(1, "/tmp") and a
\* successful StartProcess(1, {command: "ls"}): one registered process whose
\* child runs, its collectors and its reaper started.
InitProcessWith(req) ==
    /\ now = 0
    /\ files = HostFiles
    /\ threads = [t \in Threads |-> Idle]
    /\ tick = FALSE
    /\ created = 1
    /\ sessions = [id \in {1} |->
                     [NewSession EXCEPT
                        !.WorkingDir = "/tmp",
                        !.RunningProcesses = {1},
                        !.ActivityLog = LastN(<<"Session created", "Set working directory",
                                                "Started process">>, ActivityLogCap)]]
    /\ procs = [q \in {1} |->
                  [NewProcess(1, req) EXCEPT
                      !.stage = "registered", !.reaper = "wait"]]
    /\ io = [q \in {1} |-> [st \in Streams |-> NewStream]]
    /\ history = [id \in {1} |-> <<req.Command>>]
    /\ call = NoCall
    /\ ret = Ret("StartProcess", 1, "", [ID |-> 1, IsRunning |-> TRUE])

InitProcess == InitProcessWith(Request("ls", 0, <<>>))

\* The same, the request of StartProcess having any of the timeouts.
InitHandle == \E timeout \in Timeouts : InitProcessWith(Request("ls", timeout, <<>>))

\* The session registry and its sweeper.
NextRegistry ==
    \/ Tick
    \/ cleanupExpiredSessions
    \/ CreateSession
    \/ \E id \in SessionIds : GetSession(id)
    \/ \E id \in SessionIds : DeleteSession(id)
    \/ \E id \in SessionIds, dir \in Dirs : SetWorkingDirectory(id, dir)

SpecRegistry == Init /\ [][NextRegistry]_vars

\* Background processes of one session, from start to reaping, with the
\* session deleted or expiring under them.
NextLifecycle ==
    \/ Tick
    \/ cleanupExpiredSessions
    \/ \E id \in SessionIds : GetSession(id)
    \/ \E id \in SessionIds : DeleteSession(id)
    \/ \E id \in SessionIds, req \in PlainRequests, ok \in BOOLEAN : StartProcess(id, req, ok)
    \/ \E pid \in ProcIds : RegisterProcess(pid)
    \/ \E pid \in ProcIds, code \in {0, 1} : ChildExit(pid, code)
    \/ \E pid \in ProcIds : ReaperWait(pid)
    \/ \E pid \in ProcIds : ReaperLog(pid)
    \/ \E pid \in ProcIds : ReaperClose(pid)
    \/ \E id \in SessionIds : ListProcesses(id)

SpecLifecycle == InitSession /\ [][NextLifecycle]_vars

\* Forced termination of background processes: signals and timeouts.
NextKill ==
    \/ \E id \in SessionIds : DeleteSession(id)
    \/ \E id \in SessionIds, req \in TimedRequests, ok \in BOOLEAN : StartProcess(id, req, ok)
    \/ \E pid \in ProcIds : RegisterProcess(pid)
    \/ \E pid \in ProcIds, code \in {0, 1} : ChildExit(pid, code)
    \/ \E pid \in ProcIds : TimeoutFires(pid)
    \/ \E id \in SessionIds, pid \in NamedProcIds, sig \in Signals, dies \in BOOLEAN :
          SignalProcess(id, pid, sig, dies)
    \/ \E pid \in ProcIds : ReaperWait(pid)
    \/ \E pid \in ProcIds : ReaperLog(pid)
    \/ \E pid \in ProcIds : ReaperClose(pid)
    \/ \E id \in SessionIds : ListProcesses(id)

\* cmd.Wait() returns once the child has exited, and each later step of the
\* reaper goroutine is taken.
SpecKill ==
    /\ InitSession /\ [][NextKill]_vars
    /\ \A pid \in ProcIds :
          /\ WF_vars(ReaperWait(pid))
          /\ WF_vars(ReaperLog(pid))
          /\ WF_vars(ReaperClose(pid))

\* The same with the scheduling of the reaper goroutine: cmd.Wait() returns
\* once the child has exited, and each later step of the goroutine is taken.
SpecReaper ==
    /\ SpecLifecycle
    /\ \A pid \in ProcIds :
          /\ WF_vars(ReaperWait(pid))
          /\ WF_vars(ReaperLog(pid))
          /\ WF_vars(ReaperClose(pid))

\* The output path of background processes: child, collectors, reaper and
\* the callers that poll them.
NextOutput ==
    \/ \E pid \in ProcIds, st \in Streams : ChildWrite(pid, st)
    \/ \E pid \in ProcIds, code \in {0, 1} : ChildExit(pid, code)
    \/ \E pid \in ProcIds, st \in Streams : CollectorFill(pid, st)
    \/ \E pid \in ProcIds, st \in Streams : CollectorScan(pid, st)
    \/ \E pid \in ProcIds : ReaperWait(pid)
    \/ \E pid \in ProcIds : ReaperLog(pid)
    \/ \E pid \in ProcIds : ReaperClose(pid)
    \/ \E id \in SessionIds : ListProcesses(id)
    \/ \E id \in SessionIds, pid \in ProcIds : GetOutput(id, pid)

SpecOutput == InitProcess /\ [][NextOutput]_vars

\* Operations on a session and its process before and after its deletion.
NextDeleted ==
    \/ CreateSession
    \/ \E id \in SessionIds : SetWorkingDirectory(id, "/tmp")
    \/ \E id \in SessionIds : GetSession(id)
    \/ \E id \in SessionIds : DeleteSession(id)
    \/ \E id \in SessionIds, req \in PlainRequests, ok \in BOOLEAN : StartProcess(id, req, ok)
    \/ \E id \in SessionIds : ListProcesses(id)
    \/ \E id \in SessionIds, pid \in NamedProcIds : GetOutput(id, pid)
    \/ \E id \in SessionIds, pid \in NamedProcIds, input \in Inputs : SendInput(id, pid, input)
    \/ \E id \in SessionIds, pid \in NamedProcIds, sig \in Signals, dies \in BOOLEAN :
          SignalProcess(id, pid, sig, dies)

SpecDeleted == InitProcess /\ [][NextDeleted]_vars

\* The environment variables of the sessions.
NextEnvMap ==
    \/ CreateSession
    \/ \E id \in SessionIds : DeleteSession(id)
    \/ \E id \in SessionIds, k \in EnvKeys, v \in EnvValues : SetEnvVar(id, k, v)
    \/ \E id \in SessionIds : GetEnvVars(id)
    \/ \E id \in SessionIds, k \in EnvKeys : UnsetEnvVar(id, k)
    \/ \E id \in SessionIds, K \in SUBSET EnvKeys :
          \E m \in [K -> EnvValues] : SetBatchEnvVars(id, m)

SpecEnvMap == InitCreated /\ [][NextEnvMap]_vars

\* The calls that record a command in the history.
NextHistory ==
    \/ \E id \in {1} : DeleteSession(id)
    \/ \E id \in {1}, req \in PlainRequests, started \in BOOLEAN :
          ExecuteCommand(id, req, started)
    \/ ShellExit(1)
    \/ ExecuteCommandReturn
    \/ \E id \in {1}, cmds \in BatchRequests, coe \in BOOLEAN :
          ExecuteBatchCommands(id, cmds, coe)
    \/ BatchCommandStart
    \/ \E code \in {0, 1} : BatchCommandReturn(code)
    \/ \E id \in {1}, ok \in BOOLEAN : StartProcess(id, Request("ls", 0, <<>>), ok)
    \/ \E pid \in ProcIds : RegisterProcess(pid)

SpecHistory == InitSession /\ [][NextHistory]_vars

\* The history of a session read before and after the session is deleted or
\* swept.
NextForgotten ==
    \/ Tick
    \/ cleanupExpiredSessions
    \/ \E id \in SessionIds : DeleteSession(id)
    \/ \E id \in SessionIds, req \in PlainRequests, started \in BOOLEAN :
          ExecuteCommand(id, req, started)
    \/ ShellExit(1)
    \/ ExecuteCommandReturn
    \/ \E id \in SessionIds, limit \in {0, 1} : GetHistory(id, limit)
    \/ \E id \in SessionIds, query \in Queries : SearchHistory(id, query)

SpecForgotten == InitSession /\ [][NextForgotten]_vars

\* Signals to a background process whose shell starts a process of its own.
NextGroup ==
    \/ \E pid \in ProcIds : ProcessForks(pid)
    \/ \E pid \in ProcIds : ProcessDescendantExit(pid)
    \/ \E pid \in ProcIds, code \in {0, 1} : ChildExit(pid, code)
    \/ \E id \in SessionIds, pid \in NamedProcIds, sig \in Signals, dies \in BOOLEAN :
          SignalProcess(id, pid, sig, dies)
    \/ \E pid \in ProcIds : ReaperWait(pid)
    \/ \E pid \in ProcIds : ReaperLog(pid)
    \/ \E pid \in ProcIds : ReaperClose(pid)
    \/ \E id \in SessionIds : ListProcesses(id)

SpecGroup == InitProcess /\ [][NextGroup]_vars

\* The file service: files and directories of a session.
NextFiles ==
    \/ \E id \in SessionIds : SetWorkingDirectory(id, "/tmp")
    \/ \E id \in SessionIds : DeleteSession(id)
    \/ \E id \in SessionIds, rel \in Names : CreateFile(id, rel)
    \/ \E id \in SessionIds, rel \in Names : ReadFile(id, rel)
    \/ \E id \in SessionIds, rel \in Names : DeleteFile(id, rel)
    \/ \E id \in SessionIds, rel \in Names \cup {"."} : ListDirectories(id, rel)
    \/ \E id \in SessionIds, rel \in Names : CreateDirectory(id, rel)
    \/ \E id \in SessionIds, rel \in Names : DeleteDirectory(id, rel)

SpecFiles == InitCreated /\ [][NextFiles]_vars

\* Every session-scoped API operation, within one sweep period: the clock
\* advances, the sweeper has not yet received the tick.
NextActivity ==
    \/ Tick
    \/ \E id \in SessionIds : GetSession(id)
    \/ \E id \in SessionIds, k \in EnvKeys, v \in EnvValues : SetEnvVar(id, k, v)
    \/ \E id \in SessionIds : GetEnvVars(id)
    \/ \E id \in SessionIds, k \in EnvKeys : UnsetEnvVar(id, k)
    \/ \E id \in SessionIds, m \in [EnvKeys -> EnvValues] : SetBatchEnvVars(id, m)
    \/ \E pid \in ProcIds : ReaperWait(pid)
    \/ \E id \in SessionIds : ListProcesses(id)
    \/ \E id \in SessionIds, pid \in NamedProcIds : GetOutput(id, pid)
    \/ \E id \in SessionIds, pid \in NamedProcIds, input \in Inputs : SendInput(id, pid, input)
    \/ \E id \in SessionIds, pid \in NamedProcIds, sig \in Signals, dies \in BOOLEAN :
          SignalProcess(id, pid, sig, dies)
    \/ \E id \in SessionIds, limit \in {0, 1} : GetHistory(id, limit)
    \/ \E id \in SessionIds, query \in Queries : SearchHistory(id, query)
    \/ \E id \in SessionIds : ClearHistory(id)

SpecActivity == InitProcess /\ [][NextActivity]_vars

\* Foreground execution, with the session deleted under a running batch.
NextBatch ==
    \/ \E id \in SessionIds : DeleteSession(id)
    \/ \E id \in SessionIds, cmds \in BatchRequests, coe \in BOOLEAN :
          ExecuteBatchCommands(id, cmds, coe)
    \/ BatchCommandStart
    \/ \E code \in ExitCodes : BatchCommandReturn(code)

SpecBatch == InitSession /\ [][NextBatch]_vars

\* One foreground command at a time, its shell, the processes the shell
\* starts and the timeout.
NextForeground ==
    \/ \E id \in SessionIds : DeleteSession(id)
    \/ \E id \in SessionIds, req \in TimedRequests, ok \in BOOLEAN :
          ExecuteCommand(id, req, ok)
    \/ ShellForks
    \/ DescendantExit
    \/ \E code \in {0, 1} : ShellExit(code)
    \/ ExecTimeout
    \/ ExecuteCommandReturn

SpecForeground == InitSession /\ [][NextForeground]_vars

\* Children started after the session's variables have been set and unset,
\* by requests that carry variables of their own.
NextEnv ==
    \/ \E id \in SessionIds, k \in EnvKeys, v \in EnvValues : SetEnvVar(id, k, v)
    \/ \E id \in SessionIds, k \in EnvKeys : UnsetEnvVar(id, k)
    \/ \E id \in SessionIds, req \in EnvRequests, ok \in BOOLEAN :
          ExecuteCommand(id, req, ok)
    \/ ShellExit(0)
    \/ ExecuteCommandReturn
    \/ \E id \in SessionIds, req \in EnvRequests, ok \in BOOLEAN : StartProcess(id, req, ok)
    \/ \E pid \in ProcIds : RegisterProcess(pid)

SpecEnv == InitSession /\ [][NextEnv]_vars

\* The execution operations on a session that has no working directory,
\* then has one, then is deleted, and on ids that name no session.
NextValidation ==
    \/ \E id \in SessionIds : SetWorkingDirectory(id, "/tmp")
    \/ \E id \in SessionIds : DeleteSession(id)
    \/ \E id \in SessionIds, ok \in BOOLEAN :
          ExecuteCommand(id, Request("ls", 0, <<>>), ok)
    \/ ShellExit(0)
    \/ ExecuteCommandReturn
    \/ \E id \in SessionIds, coe \in BOOLEAN : ExecuteBatchCommands(id, <<"ls">>, coe)
    \/ BatchCommandStart
    \/ BatchCommandReturn(0)
    \/ \E id \in SessionIds, ok \in BOOLEAN : StartProcess(id, Request("ls", 0, <<>>), ok)
    \/ \E pid \in ProcIds : RegisterProcess(pid)

SpecValidation == InitCreated /\ [][NextValidation]_vars

\* The registry-locked methods of SessionManager run by one API goroutine,
\* one lock operation or field access at a time, next to the sweeper.
LockOps ==
    {"GetSession", "DeleteSession", "SetWorkingDirectory", "LogActivity",
     "SessionManager.SetEnvVar", "SessionManager.UnsetEnvVar"}

NextLocks ==
    \/ Tick
    \/ SweeperBegin
    \/ \E op \in LockOps : Begin("t1", op, 1)
    \/ \E t \in Threads : Acquire(t)
    \/ \E t \in Threads : Release(t)
    \/ \E t \in Threads : Lookup(t)
    \/ \E t \in Threads : Branch(t)
    \/ \E t \in Threads : HasKey(t)
    \/ \E t \in Threads : Goto(t)
    \/ \E t \in Threads : Access(t)
    \/ \E t \in Threads : Clock(t)
    \/ \E t \in Threads : Range(t)
    \/ \E t \in Threads : TerminateProcesses(t)
    \/ \E t \in Threads : Delete(t)
    \/ \E t \in Threads : Return(t)

SpecLocks == InitProcess /\ [][NextLocks]_vars

\* The methods that read or write the fields of a session, run by two API
\* goroutines at once.
FieldOps ==
    {"SetWorkingDirectory", "ListProcesses", "SessionManager.GetEnvVars",
     "EnvService.SetEnvVar", "EnvService.GetEnvVars"}

NextFields ==
    \/ \E t \in ApiThreads : \E op \in FieldOps : Begin(t, op, 1)
    \/ \E t \in ApiThreads : Acquire(t)
    \/ \E t \in ApiThreads : Release(t)
    \/ \E t \in ApiThreads : Lookup(t)
    \/ \E t \in ApiThreads : Branch(t)
    \/ \E t \in ApiThreads : Access(t)
    \/ \E t \in ApiThreads : IsRunning(t)
    \/ \E t \in ApiThreads : ReadExitCode(t)
    \/ \E t \in ApiThreads : Goto(t)
    \/ \E t \in ApiThreads : Return(t)

SpecFields == InitProcess /\ [][NextFields]_vars

\* ListProcesses building its entries field by field while the child, the
\* collectors and the reaper of the listed process run.
NextSnapshot ==
    \/ \E pid \in ProcIds, st \in Streams : ChildWrite(pid, st)
    \/ \E pid \in ProcIds, code \in {0, 1} : ChildExit(pid, code)
    \/ \E pid \in ProcIds, st \in Streams : CollectorFill(pid, st)
    \/ \E pid \in ProcIds, st \in Streams : CollectorScan(pid, st)
    \/ \E pid \in ProcIds : ReaperWait(pid)
    \/ \E pid \in ProcIds : ReaperLog(pid)
    \/ \E pid \in ProcIds : ReaperClose(pid)
    \/ Begin("t1", "ListProcesses", 1)
    \/ Acquire("t1")
    \/ Release("t1")
    \/ Lookup("t1")
    \/ Branch("t1")
    \/ Access("t1")
    \/ IsRunning("t1")
    \/ ReadExitCode("t1")
    \/ Goto("t1")
    \/ Return("t1")

SpecSnapshot == InitProcess /\ [][NextSnapshot]_vars

\* A batch assignment of environment variables next to the readers of the
\* session's environment, on two goroutines.
BatchOps == {"EnvService.SetBatchEnvVars", "EnvService.GetEnvVars", "ExecuteCommand"}

NextBatchEnv ==
    \/ \E t \in ApiThreads : \E op \in BatchOps : Begin(t, op, 1)
    \/ \E t \in ApiThreads : Acquire(t)
    \/ \E t \in ApiThreads : Release(t)
    \/ \E t \in ApiThreads : Lookup(t)
    \/ \E t \in ApiThreads : Branch(t)
    \/ \E t \in ApiThreads : Access(t)
    \/ \E t \in ApiThreads : Record(t)
    \/ \E t \in ApiThreads : Return(t)

SpecBatchEnv == InitProcess /\ [][NextBatchEnv]_vars

\* The session variable SHELL and the processes started under it.
NextShell ==
    \/ SetWorkingDirectory(1, "/tmp")
    \/ \E v \in Shells : SetEnvVar(1, "SHELL", v)
    \/ UnsetEnvVar(1, "SHELL")
    \/ \E ok \in BOOLEAN : StartProcess(1, Request("ls", 0, <<>>), ok)
    \/ \E pid \in ProcIds : RegisterProcess(pid)
    \/ \E pid \in ProcIds, code \in {0, 1} : ChildExit(pid, code)
    \/ \E pid \in ProcIds : ReaperWait(pid)

SpecShell == InitCreated /\ [][NextShell]_vars

\* A registered process up to and after its completion, with the calls that
\* reach its handle.
NextHandle ==
    \/ \E pid \in ProcIds : ChildWrite(pid, "Stdout")
    \/ \E pid \in ProcIds : CollectorFill(pid, "Stdout")
    \/ \E pid \in ProcIds : CollectorScan(pid, "Stdout")
    \/ \E pid \in ProcIds, code \in {0, 1} : ChildExit(pid, code)
    \/ \E pid \in ProcIds : TimeoutFires(pid)
    \/ \E pid \in ProcIds : ReaperWait(pid)
    \/ \E pid \in ProcIds : ReaperLog(pid)
    \/ \E pid \in ProcIds : ReaperClose(pid)
    \/ \E id \in {1}, pid \in ProcIds, sig \in {"SIGTERM", "SIGKILL", "SIGUSR1"}, dies \in BOOLEAN :
          SignalProcess(id, pid, sig, dies)
    \/ \E id \in {1}, pid \in ProcIds, input \in Inputs : SendInput(id, pid, input)
    \/ \E id \in {1}, pid \in ProcIds : GetOutput(id, pid)
    \/ \E id \in {1} : ListProcesses(id)
    \/ \E id \in {1} : DeleteSession(id)

SpecHandle == InitHandle /\ [][NextHandle]_vars

Next ==
    \/ NextRegistry
    \/ NextLifecycle
    \/ NextOutput
    \/ NextActivity
    \/ NextBatch
    \/ NextValidation
    \/ NextForeground
    \/ NextEnv
    \/ NextKill
    \/ NextDeleted
    \/ NextEnvMap
    \/ NextHistory
    \/ NextGroup
    \/ NextFiles
    \/ NextLocks
    \/ NextFields
    \/ NextSnapshot
    \/ NextBatchEnv
    \/ NextShell
    \/ NextHandle
    \/ NextForgotten

Spec == Init /\ [][Next]_vars
====
